---- MODULE Spec2Model ----
(***************************************************************************)
(* The ctest_* handler command protocol of Source/CTest:                   *)
(*   cmCTestHandlerCommand::InitialPass  (argument binding, error-state    *)
(*   save/restore, ambient configuration, handler initialisation, scoped   *)
(*   working directory, handler execution, output variables)               *)
(*   cmCTestBuildCommand::InitializeHandler / ProcessAdditionalValues      *)
(* and the export() command of Source/cmExportCommand.cxx (the SETUP,      *)
(* EXPORT, TARGETS and PACKAGE forms, with the user package registry).     *)
(* One script runs its commands strictly one after the other.  The state   *)
(* is what outlives a command (the global error flag, the makefile         *)
(* definitions, the CTest configuration, the working directory, the        *)
(* export sets and the export file generators) plus a record of the last   *)
(* invocation.                                                             *)
(* Left out, because no state read below depends on them: the              *)
(* SourceDirectory, ChangeId, UseLaunchers and LabelsForSubprojects        *)
(* configuration entries, the time limit, and the handler's AppendXML,     *)
(* SubmitIndex and Quiet settings.                                         *)
(***************************************************************************)
EXTENDS Integers, Sequences, FiniteSets, TLC

VARIABLES
  ErrorOccurredFlag,     \* cmSystemTools::GetErrorOccurredFlag()
  definitions,           \* cmMakefile definitions: name -> value or Undef
  ctestConfiguration,    \* cmCTest configuration: "BuildDirectory", "MakeCommand"
  ConfigType,            \* cmCTest::GetConfigType()
  commandLineConfigType, \* the value ctest -C gave ConfigType at start-up
  cwd,                   \* the process working directory
  pc,                    \* "idle": between commands, "returned": a command returned
  call,                  \* record of the last InitialPass invocation
  ExportSets,            \* cmGlobalGenerator::GetExportSets(): name -> export set
  BuildExportSets,       \* cmGlobalGenerator: file -> its export file generator
  ExportBuildFileGenerators, \* cmMakefile: the generators added, in order
  PolicyStatus,          \* cmMakefile::GetPolicyStatus: policy -> OLD, WARN, NEW
  ExperimentalFeatures,  \* cmExperimental: the features enabled
  exportCall,            \* record of the last cmExportCommand invocation
  PackageRegistry,       \* the user package registry: directories and entries
  Platform,              \* the platform the build is for
  UserDirectory,         \* HOME (the user settings directory on Haiku), or Undef
  RegistryFault          \* what the registry backend refuses to do, if anything

\* What the ctest commands work on, and what the export command works on.
ctestVars == <<definitions, ctestConfiguration, ConfigType,
               commandLineConfigType, cwd, call>>

registryVars == <<PackageRegistry, Platform, UserDirectory, RegistryFault>>

exportVars == <<ExportSets, BuildExportSets, ExportBuildFileGenerators,
                PolicyStatus, ExperimentalFeatures, exportCall, registryVars>>

vars == <<ErrorOccurredFlag, definitions, ctestConfiguration, ConfigType,
          commandLineConfigType, cwd, pc, call, ExportSets, BuildExportSets,
          ExportBuildFileGenerators, PolicyStatus, ExperimentalFeatures,
          exportCall, PackageRegistry, Platform, UserDirectory, RegistryFault>>

-----------------------------------------------------------------------------
(* Values *)

\* A cmValue that is null: the definition does not exist.
Undef == "<undefined>"

\* Names a script can pass as output variables.
OutputVariables == {"v1", "v2"}

\* Ambient script variables the commands read.
AmbientVariables ==
  {"CTEST_BUILD_COMMAND", "CTEST_CMAKE_GENERATOR", "CTEST_BUILD_CONFIGURATION",
   "CTEST_CONFIGURATION_TYPE", "CTEST_BINARY_DIRECTORY", "CTEST_BUILD_FLAGS",
   "CTEST_BUILD_TARGET"}

\* Variables of the project the export command reads.
ExportVariables ==
  {"CMAKE_EXPORT_NO_PACKAGE_REGISTRY", "CMAKE_EXPORT_PACKAGE_REGISTRY"}

VariableNames == OutputVariables \cup AmbientVariables \cup ExportVariables

\* Generator names cmake::CreateGlobalGenerator knows.
KnownGenerators == {"Watcom WMake"}

\* Directories that exist and can be entered.
ExistingDirectories == {"/w", "/b1", "/w/rel"}

\* Paths that are already absolute.
AbsolutePaths == {"/w", "/b1", "/w/rel", "/gone"}

-----------------------------------------------------------------------------
(* Argument parsing *)

StringKeywords ==
  {"RETURN_VALUE", "CAPTURE_CMAKE_ERROR", "SOURCE", "BUILD", "SUBMIT_INDEX",
   "NUMBER_ERRORS", "NUMBER_WARNINGS", "TARGET", "CONFIGURATION", "FLAGS",
   "PROJECT_NAME", "PARALLEL_LEVEL"}

FlagKeywords == {"APPEND", "QUIET"}

Keywords == StringKeywords \cup FlagKeywords

\* The argument values before parsing: every string empty, every flag off.
BindArguments ==
  [Append |-> FALSE, Quiet |-> FALSE, ReturnValue |-> "",
   CaptureCMakeError |-> "", Source |-> "", Build |-> "", SubmitIndex |-> "",
   NumberErrors |-> "", NumberWarnings |-> "", Target |-> "",
   Configuration |-> "", Flags |-> "", ProjectName |-> "", ParallelLevel |-> ""]

\* The field a keyword is bound to.
Field(k) ==
  CASE k = "APPEND" -> "Append"
    [] k = "QUIET" -> "Quiet"
    [] k = "RETURN_VALUE" -> "ReturnValue"
    [] k = "CAPTURE_CMAKE_ERROR" -> "CaptureCMakeError"
    [] k = "SOURCE" -> "Source"
    [] k = "BUILD" -> "Build"
    [] k = "SUBMIT_INDEX" -> "SubmitIndex"
    [] k = "NUMBER_ERRORS" -> "NumberErrors"
    [] k = "NUMBER_WARNINGS" -> "NumberWarnings"
    [] k = "TARGET" -> "Target"
    [] k = "CONFIGURATION" -> "Configuration"
    [] k = "FLAGS" -> "Flags"
    [] k = "PROJECT_NAME" -> "ProjectName"
    [] k = "PARALLEL_LEVEL" -> "ParallelLevel"

\* One token: a keyword is recorded in ParsedKeywords and opens its slot, a
\* value fills the open slot of a string keyword, any other token is unparsed.
ParseToken(p, tok) ==
  IF tok \in FlagKeywords
  THEN [p EXCEPT !.args[Field(tok)] = TRUE,
                 !.ParsedKeywords = Append(@, tok),
                 !.open = ""]
  ELSE IF tok \in StringKeywords
  THEN [p EXCEPT !.ParsedKeywords = Append(@, tok), !.open = tok]
  ELSE IF p.open # ""
  THEN [p EXCEPT !.args[Field(p.open)] = tok, !.open = ""]
  ELSE [p EXCEPT !.unparsedArguments = Append(@, tok)]

RECURSIVE ParseFrom(_, _)
ParseFrom(p, tokens) ==
  IF tokens = <<>> THEN p
  ELSE ParseFrom(ParseToken(p, Head(tokens)), Tail(tokens))

Parse(arguments) ==
  ParseFrom([args |-> BindArguments, ParsedKeywords |-> <<>>,
             unparsedArguments |-> <<>>, open |-> ""], arguments)

\* Rank of a keyword in the order std::sort uses (byte-wise string order).
KeywordRank(k) ==
  CASE k = "APPEND" -> 1
    [] k = "BUILD" -> 2
    [] k = "CAPTURE_CMAKE_ERROR" -> 3
    [] k = "CONFIGURATION" -> 4
    [] k = "FLAGS" -> 5
    [] k = "NUMBER_ERRORS" -> 6
    [] k = "NUMBER_WARNINGS" -> 7
    [] k = "PARALLEL_LEVEL" -> 8
    [] k = "PROJECT_NAME" -> 9
    [] k = "QUIET" -> 10
    [] k = "RETURN_VALUE" -> 11
    [] k = "SOURCE" -> 12
    [] k = "SUBMIT_INDEX" -> 13
    [] k = "TARGET" -> 14

RECURSIVE Insert(_, _)
Insert(k, s) ==
  IF s = <<>> THEN <<k>>
  ELSE IF KeywordRank(k) <= KeywordRank(Head(s)) THEN <<k>> \o s
  ELSE <<Head(s)>> \o Insert(k, Tail(s))

\* std::sort(ParsedKeywords)
RECURSIVE Sort(_)
Sort(s) == IF s = <<>> THEN <<>> ELSE Insert(Head(s), Sort(Tail(s)))

\* std::adjacent_find: the first index whose element equals its successor,
\* 0 for end().
AdjacentFind(s) ==
  IF \E i \in 1..(Len(s) - 1) : s[i] = s[i + 1]
  THEN CHOOSE i \in 1..(Len(s) - 1) :
         /\ s[i] = s[i + 1]
         /\ \A j \in 1..(i - 1) : s[j] # s[j + 1]
  ELSE 0

-----------------------------------------------------------------------------
(* Collaborators of the commands *)

\* cmNonempty: the value exists and is not the empty string.
cmNonempty(v) == v # Undef /\ v # ""

\* cmMakefile::GetDefinition / GetSafeDefinition on the machine m.
GetDefinition(m, name) == m.defs[name]

GetSafeDefinition(m, name) ==
  IF m.defs[name] = Undef THEN "" ELSE m.defs[name]

\* cmMakefile::AddDefinition; the names written in this call are remembered.
AddDefinition(m, name, value) ==
  [m EXCEPT !.defs[name] = value, !.written = @ \cup {name}]

\* cmSystemTools::SetErrorOccurred / SetFatalErrorOccurred /
\* ResetErrorOccurredFlag, seen through GetErrorOccurredFlag.
SetErrorOccurred(m) == [m EXCEPT !.flag = TRUE]

SetFatalErrorOccurred(m) == [m EXCEPT !.flag = TRUE]

ResetErrorOccurredFlag(m) == [m EXCEPT !.flag = FALSE]

\* What happened in the call, for the record of the invocation.
Event(m, e) == [m EXCEPT !.events = @ \cup {e}]

\* cmMakefile::IssueMessage(FATAL_ERROR, ...): the message raises the error
\* flag.
IssueFatalError(m, e) == SetErrorOccurred(Event(m, e))

\* cmCommand::SetError: only the status text of the command changes.
SetError(m, text) == [m EXCEPT !.error = text]

\* cmSystemTools::CollapseFullPath: an absolute path stays, a relative one
\* is taken from the current working directory.
CollapseFullPath(m, path) ==
  IF path \in AbsolutePaths THEN path ELSE m.cwd \o "/" \o path

\* cmCTest::SetCTestConfiguration / GetCTestConfiguration; the entries set in
\* this call are remembered.
SetCTestConfiguration(m, key, value) ==
  [m EXCEPT !.cfg[key] = value, !.configured = @ \cup {key}]

GetCTestConfiguration(m, key) == m.cfg[key]

\* cmCTest::SetConfigType.
SetConfigType(m, ct) == [m EXCEPT !.ConfigType = ct]

\* cmake::CreateGlobalGenerator: a generator exists for the known names only.
CreateGlobalGenerator(name) == name \in KnownGenerators

\* cmGlobalGenerator::GenerateCMakeBuildCommand: the command line of
\* "cmake --build" from configuration, parallel level, target and native
\* flags; an empty part adds nothing.
GenerateCMakeBuildCommand(target, config, parallel, native) ==
  "cmake --build ."
    \o (IF config # "" THEN " --config \"" \o config \o "\"" ELSE "")
    \o (IF parallel # "" THEN " --parallel \"" \o parallel \o "\"" ELSE "")
    \o (IF target # "" THEN " --target \"" \o target \o "\"" ELSE "")
    \o (IF native # "" THEN " -- " \o native ELSE "")

\* std::to_string on the results a handler reports.
to_string(n) ==
  CASE n = 0 -> "0"
    [] n = 1 -> "1"
    [] n = 2 -> "2"
    [] n = -1 -> "-1"

-----------------------------------------------------------------------------
(* SaveRestoreErrorState *)

\* Faulty variant of the constructor: the flag is remembered but not reset.
SaveRestoreErrorState_NoReset(m) ==
  [m EXCEPT !.InitialErrorState = m.flag, !.CaptureCMakeErrorValue = FALSE]

\* The constructor: remember the error flag and reset it.
SaveRestoreErrorState(m) ==
  [ResetErrorOccurredFlag(m) EXCEPT !.InitialErrorState = m.flag,
                                    !.CaptureCMakeErrorValue = FALSE]

\* errorState.CaptureCMakeError()
CaptureCMakeError(m) == [m EXCEPT !.CaptureCMakeErrorValue = TRUE]

\* Faulty variant of the destructor: with capture the flag is left as the
\* call left it.
RestoreErrorState_NoRestore(m) ==
  IF ~m.CaptureCMakeErrorValue
  THEN IF m.InitialErrorState THEN SetErrorOccurred(m) ELSE m
  ELSE m

\* Faulty variant of the destructor: the entry value is put back with or
\* without capture.
RestoreErrorState_Always(m) == [m EXCEPT !.flag = m.InitialErrorState]

\* Faulty variant of the destructor: without capture nothing is put back.
RestoreErrorState_Never(m) ==
  IF ~m.CaptureCMakeErrorValue
  THEN m
  ELSE IF m.flag # m.InitialErrorState
       THEN IF m.InitialErrorState
            THEN SetErrorOccurred(m)
            ELSE ResetErrorOccurredFlag(m)
       ELSE m

\* The destructor.  Without capture a flag that was set on entry is set
\* again and a flag raised by the call stays; with capture the flag goes back
\* to what it was on entry.
RestoreErrorState(m) ==
  IF ~m.CaptureCMakeErrorValue
  THEN IF m.InitialErrorState THEN SetErrorOccurred(m) ELSE m
  ELSE IF m.flag # m.InitialErrorState
       THEN IF m.InitialErrorState
            THEN SetErrorOccurred(m)
            ELSE ResetErrorOccurredFlag(m)
       ELSE m

-----------------------------------------------------------------------------
(* cmWorkingDirectory *)

\* The constructor: remember the directory and try to enter newdir.
WorkingDirectoryEnter(m, newdir) ==
  IF newdir \in ExistingDirectories
  THEN [m EXCEPT !.OldDir = m.cwd, !.cwd = newdir, !.workdirFailed = FALSE]
  ELSE [m EXCEPT !.OldDir = m.cwd, !.workdirFailed = TRUE]

\* The destructor: go back to the remembered directory.
WorkingDirectoryLeave(m) ==
  IF m.OldDir # "" THEN [m EXCEPT !.cwd = m.OldDir, !.OldDir = ""] ELSE m

-----------------------------------------------------------------------------
(* cmCTestBuildCommand *)

\* Faulty variant: CTEST_BUILD_CONFIGURATION is looked at before the
\* CONFIGURATION argument.
cmakeBuildConfiguration_ScriptFirst(m, args) ==
  IF cmNonempty(GetDefinition(m, "CTEST_BUILD_CONFIGURATION"))
  THEN GetDefinition(m, "CTEST_BUILD_CONFIGURATION")
  ELSE IF cmNonempty(args.Configuration)
       THEN args.Configuration
       ELSE m.ConfigType

\* The build configuration before the default: CONFIGURATION argument, else
\* CTEST_BUILD_CONFIGURATION, else the config type of this ctest.
cmakeBuildConfiguration(m, args) ==
  IF cmNonempty(args.Configuration)
  THEN args.Configuration
  ELSE IF cmNonempty(GetDefinition(m, "CTEST_BUILD_CONFIGURATION"))
       THEN GetDefinition(m, "CTEST_BUILD_CONFIGURATION")
       ELSE m.ConfigType

cmakeBuildAdditionalFlags(m, args) ==
  IF cmNonempty(args.Flags)
  THEN args.Flags
  ELSE GetSafeDefinition(m, "CTEST_BUILD_FLAGS")

cmakeBuildTarget(m, args) ==
  IF cmNonempty(args.Target)
  THEN args.Target
  ELSE GetSafeDefinition(m, "CTEST_BUILD_TARGET")

\* The configuration handed to the generator: "Release" replaces an empty
\* one before the generator is created; the later "Debug" default then never
\* applies.
DefaultedBuildConfiguration(config) ==
  LET released == IF config = "" THEN "Release" ELSE config
  IN IF released = "" THEN "Debug" ELSE released

\* Faulty variant of the generator branch: a generator that cannot be
\* created is reported, and the build command is composed all the same.
UseGenerator_GoOn(m, args, cmakeGeneratorName) ==
  LET reported == IF ~CreateGlobalGenerator(cmakeGeneratorName)
                  THEN IssueFatalError(m, "CouldNotCreateGenerator")
                  ELSE m
      buildCommand ==
        GenerateCMakeBuildCommand(
          cmakeBuildTarget(m, args),
          DefaultedBuildConfiguration(cmakeBuildConfiguration(m, args)),
          args.ParallelLevel, cmakeBuildAdditionalFlags(m, args))
  IN [SetCTestConfiguration(reported, "MakeCommand", buildCommand)
        EXCEPT !.handler = TRUE]

\* The generator branch: CTEST_CMAKE_GENERATOR is non-empty.
UseGenerator(m, args, cmakeGeneratorName) ==
  IF ~CreateGlobalGenerator(cmakeGeneratorName)
  THEN [SetFatalErrorOccurred(IssueFatalError(m, "CouldNotCreateGenerator"))
          EXCEPT !.handler = FALSE]
  ELSE LET target == cmakeBuildTarget(m, args)
           config == DefaultedBuildConfiguration(cmakeBuildConfiguration(m, args))
           flags == cmakeBuildAdditionalFlags(m, args)
           buildCommand ==
             GenerateCMakeBuildCommand(target, config, args.ParallelLevel, flags)
           called ==
             [m EXCEPT !.generatorCalls =
                Append(@, [generator |-> cmakeGeneratorName,
                           target |-> target, config |-> config,
                           parallel |-> args.ParallelLevel, flags |-> flags])]
       IN [SetCTestConfiguration(called, "MakeCommand", buildCommand)
             EXCEPT !.handler = TRUE]

\* Faulty variant: without a generator and without a build command a handler
\* is returned all the same.
InitializeHandler_NoProjectPasses(m, args) ==
  LET ctestBuildCommand == GetDefinition(m, "CTEST_BUILD_COMMAND")
      cmakeGeneratorName == GetDefinition(m, "CTEST_CMAKE_GENERATOR")
  IN IF cmNonempty(ctestBuildCommand)
     THEN [SetCTestConfiguration(m, "MakeCommand", ctestBuildCommand)
             EXCEPT !.handler = TRUE]
     ELSE IF cmNonempty(cmakeGeneratorName)
          THEN UseGenerator(m, args, cmakeGeneratorName)
          ELSE [SetError(m, "has no project to build") EXCEPT !.handler = TRUE]

\* Faulty variant: a generator that is named is used whether or not a build
\* command is given.
InitializeHandler_GeneratorFirst(m, args) ==
  LET ctestBuildCommand == GetDefinition(m, "CTEST_BUILD_COMMAND")
      cmakeGeneratorName == GetDefinition(m, "CTEST_CMAKE_GENERATOR")
  IN IF cmNonempty(cmakeGeneratorName)
     THEN UseGenerator(m, args, cmakeGeneratorName)
     ELSE IF cmNonempty(ctestBuildCommand)
          THEN [SetCTestConfiguration(m, "MakeCommand", ctestBuildCommand)
                  EXCEPT !.handler = TRUE]
          ELSE [SetError(m, "has no project to build") EXCEPT !.handler = FALSE]

\* cmCTestBuildCommand::InitializeHandler; m.handler tells whether a handler
\* is returned.
InitializeHandler(m, args) ==
  LET ctestBuildCommand == GetDefinition(m, "CTEST_BUILD_COMMAND")
      cmakeGeneratorName == GetDefinition(m, "CTEST_CMAKE_GENERATOR")
  IN IF cmNonempty(ctestBuildCommand)
     THEN [SetCTestConfiguration(m, "MakeCommand", ctestBuildCommand)
             EXCEPT !.handler = TRUE]
     ELSE IF cmNonempty(cmakeGeneratorName)
          THEN UseGenerator(m, args, cmakeGeneratorName)
          ELSE [SetError(m, "has no project to build") EXCEPT !.handler = FALSE]

\* cmCTestBuildCommand::ProcessAdditionalValues
ProcessAdditionalValues(m, args, h) ==
  LET m1 == IF args.NumberErrors # ""
            THEN AddDefinition(m, args.NumberErrors, to_string(h.TotalErrors))
            ELSE m
  IN IF args.NumberWarnings # ""
     THEN AddDefinition(m1, args.NumberWarnings, to_string(h.TotalWarnings))
     ELSE m1

-----------------------------------------------------------------------------
(* cmCTestHandlerCommand::InitialPass *)

\* The keywords are sorted and an adjacent equal pair is a fatal error
\* message; the command goes on after the message.
CheckParsedKeywords(m, ParsedKeywords) ==
  IF AdjacentFind(Sort(ParsedKeywords)) # 0
  THEN IssueFatalError(m, "DuplicateKeyword")
  ELSE m

\* The exits taken on a bad argument, a missing handler and a failed
\* directory change: with capture the variable is "-1" and the command
\* returns true, without capture it returns false.
ReturnFailure(m, args) ==
  IF args.CaptureCMakeError # ""
  THEN [AddDefinition(m, args.CaptureCMakeError, "-1") EXCEPT !.ret = TRUE]
  ELSE [m EXCEPT !.ret = FALSE]

\* The config type of this ctest follows CTEST_CONFIGURATION_TYPE when the
\* variable is defined.
SetConfigTypeFromScript(m) ==
  IF GetDefinition(m, "CTEST_CONFIGURATION_TYPE") # Undef
  THEN SetConfigType(m, GetDefinition(m, "CTEST_CONFIGURATION_TYPE"))
  ELSE m

\* BuildDirectory from the BUILD argument, else from CTEST_BINARY_DIRECTORY,
\* else only a log line: the configuration entry keeps its value.
ResolveBuildDirectory(m, args) ==
  IF args.Build # ""
  THEN SetCTestConfiguration(m, "BuildDirectory",
                             CollapseFullPath(m, args.Build))
  ELSE IF GetSafeDefinition(m, "CTEST_BINARY_DIRECTORY") # ""
       THEN SetCTestConfiguration(
              m, "BuildDirectory",
              CollapseFullPath(m, GetSafeDefinition(m, "CTEST_BINARY_DIRECTORY")))
       ELSE Event(m, "BinaryDirectoryNotSet")

\* handler->ProcessHandler(): the handler runs, in the directory the process
\* is in at that moment, and may raise an error.
ProcessHandler(m, h) ==
  LET ran == [Event(m, "ProcessHandler") EXCEPT !.handlerCwd = m.cwd]
  IN IF h.raise THEN SetErrorOccurred(Event(ran, "ErrorInHandler")) ELSE ran

\* From ProcessHandler to the return: RETURN_VALUE, the metric variables and
\* the capture variable, written in that order.
RunHandler(m, args, h) ==
  LET ran == ProcessHandler(m, h)
      returned == IF args.ReturnValue # ""
                  THEN AddDefinition(ran, args.ReturnValue, to_string(h.res))
                  ELSE ran
      reported == ProcessAdditionalValues(returned, args, h)
      captured == IF args.CaptureCMakeError # ""
                  THEN AddDefinition(reported, args.CaptureCMakeError,
                                     IF reported.flag THEN "-1" ELSE "0")
                  ELSE reported
  IN [captured EXCEPT !.ret = TRUE]

\* Faulty variant: after the handler has run the process stays in the build
\* directory.
InitializeAndRun_StayInBuildDirectory(m, args, h) ==
  LET initialized == InitializeHandler(Event(m, "InitializeHandler"), args)
  IN IF ~initialized.handler
     THEN ReturnFailure(Event(initialized, "CannotInstantiateHandler"), args)
     ELSE LET workdir ==
                WorkingDirectoryEnter(
                  initialized, GetCTestConfiguration(initialized, "BuildDirectory"))
          IN IF workdir.workdirFailed
             THEN WorkingDirectoryLeave(
                    ReturnFailure(
                      SetError(Event(workdir, "WorkdirFailed"),
                               "Failed to change working directory"),
                      args))
             ELSE RunHandler(workdir, args, h)

\* From the handler's initialisation on; the working directory is left again
\* on each way out.
InitializeAndRun(m, args, h) ==
  LET initialized == InitializeHandler(Event(m, "InitializeHandler"), args)
  IN IF ~initialized.handler
     THEN ReturnFailure(Event(initialized, "CannotInstantiateHandler"), args)
     ELSE LET workdir ==
                WorkingDirectoryEnter(
                  initialized, GetCTestConfiguration(initialized, "BuildDirectory"))
          IN IF workdir.workdirFailed
             THEN WorkingDirectoryLeave(
                    ReturnFailure(
                      SetError(Event(workdir, "WorkdirFailed"),
                               "Failed to change working directory"),
                      args))
             ELSE WorkingDirectoryLeave(RunHandler(workdir, args, h))

\* Faulty variant of the body: a bad argument does not end the command.
InitialPassBody_NoEarlyExit(m, arguments, h) ==
  LET parsed == Parse(arguments)
      args == parsed.args
      checked == CheckParsedKeywords(m, parsed.ParsedKeywords)
      flagged == IF parsed.unparsedArguments # <<>>
                 THEN SetError(Event(checked, "UnknownArgument"),
                               "called with unknown argument")
                 ELSE checked
      capturing == IF args.CaptureCMakeError # ""
                   THEN CaptureCMakeError(flagged)
                   ELSE flagged
  IN InitializeAndRun(
       ResolveBuildDirectory(SetConfigTypeFromScript(capturing), args),
       args, h)

\* The body of InitialPass between the construction and the destruction of
\* errorState.
InitialPassBody(m, arguments, h) ==
  LET parsed == Parse(arguments)
      args == parsed.args
      checked == CheckParsedKeywords(m, parsed.ParsedKeywords)
      foundBadArgument == parsed.unparsedArguments # <<>>
      flagged == IF foundBadArgument
                 THEN SetError(Event(checked, "UnknownArgument"),
                               "called with unknown argument")
                 ELSE checked
      capturing == IF args.CaptureCMakeError # ""
                   THEN CaptureCMakeError(flagged)
                   ELSE flagged
  IN IF foundBadArgument
     THEN ReturnFailure(capturing, args)
     ELSE InitializeAndRun(
            ResolveBuildDirectory(SetConfigTypeFromScript(capturing), args),
            args, h)

\* The machine a command starts on.
Machine ==
  [flag |-> ErrorOccurredFlag, defs |-> definitions,
   cfg |-> ctestConfiguration, ConfigType |-> ConfigType, cwd |-> cwd,
   events |-> {}, written |-> {}, configured |-> {},
   generatorCalls |-> <<>>,
   error |-> "unknown error.", ret |-> FALSE, handler |-> FALSE,
   handlerCwd |-> "",
   InitialErrorState |-> FALSE, CaptureCMakeErrorValue |-> FALSE,
   OldDir |-> "", workdirFailed |-> FALSE]

\* No command has run yet.
NoCall ==
  [arguments |-> <<>>, args |-> BindArguments, ret |-> TRUE, events |-> {},
   written |-> {}, configured |-> {}, handler |-> FALSE,
   handlerCwd |-> "",
   generatorCalls |-> <<>>, error |-> "unknown error.",
   entryFlag |-> FALSE, entryCwd |-> "/w", entryConfigType |-> "",
   returnFlag |-> FALSE]

\* One ctest_build(arguments...) call, from entry to the return of
\* InitialPass; h is what the handler does if it runs.
InitialPass(arguments, h) ==
  /\ pc = "idle"
  /\ \E m \in {RestoreErrorState(
                InitialPassBody(SaveRestoreErrorState(Machine), arguments, h))} :
        /\ ErrorOccurredFlag' = m.flag
        /\ definitions' = m.defs
        /\ ctestConfiguration' = m.cfg
        /\ ConfigType' = m.ConfigType
        /\ cwd' = m.cwd
        /\ call' = [arguments |-> arguments, args |-> Parse(arguments).args,
                    ret |-> m.ret, events |-> m.events, written |-> m.written,
                    configured |-> m.configured, handler |-> m.handler,
                    handlerCwd |-> m.handlerCwd,
                    generatorCalls |-> m.generatorCalls, error |-> m.error,
                    entryFlag |-> ErrorOccurredFlag, entryCwd |-> cwd,
                    entryConfigType |-> ConfigType,
                    returnFlag |-> m.flag]
  /\ pc' = "returned"
  /\ UNCHANGED <<commandLineConfigType, exportVars>>

\* The caller of InitialPass: a command that returns false is reported as a
\* fatal error of the script.  The record of the invocation ends with it.
ExecuteCommand ==
  /\ pc = "returned"
  /\ ErrorOccurredFlag' = (ErrorOccurredFlag \/ ~call.ret)
  /\ pc' = "idle"
  /\ call' = NoCall
  /\ UNCHANGED <<definitions, ctestConfiguration, ConfigType,
                 commandLineConfigType, cwd, exportVars>>

\* set(<name> <value>) / unset(<name>) between two commands.
SetDefinition(name, value) ==
  /\ pc = "idle"
  /\ definitions[name] # value
  /\ definitions' = [definitions EXCEPT ![name] = value]
  /\ UNCHANGED <<ErrorOccurredFlag, ctestConfiguration, ConfigType,
                 commandLineConfigType, cwd, pc, call, exportVars>>

\* Another command of the script reports an error (message(SEND_ERROR)).
SendError ==
  /\ pc = "idle"
  /\ ~ErrorOccurredFlag
  /\ ErrorOccurredFlag' = TRUE
  /\ UNCHANGED <<definitions, ctestConfiguration, ConfigType,
                 commandLineConfigType, cwd, pc, call, exportVars>>

-----------------------------------------------------------------------------
(* The export() command: values and collaborators *)

\* cmPolicies::PolicyStatus
PolicyStatuses == {"OLD", "WARN", "NEW"}

\* The policies the export command asks for.
Policies == {"CMP0090", "CMP0103"}

\* The experimental features cmExperimental::HasSupportEnabled knows.
HasSupportEnabled(feature) == feature \in ExperimentalFeatures

\* The targets of the project with their types, and the alias names with the
\* target each stands for.
ProjectTargets ==
  ("lib" :> "STATIC_LIBRARY") @@ ("app" :> "EXECUTABLE") @@ ("util" :> "UTILITY")

AliasTargets == ("alias" :> "util")

\* Names an export command can list as targets; "ghost" is no target.
TargetNames == {"lib", "app", "util", "alias", "ghost"}

\* cmMakefile::IsAlias
IsAlias(name) == name \in DOMAIN AliasTargets

\* cmGlobalGenerator::FindTarget: the type of the target the name resolves to
\* (an alias resolves to its target), "" when there is none.
FindTarget(name) ==
  LET resolved == IF name \in DOMAIN AliasTargets THEN AliasTargets[name] ELSE name
  IN IF resolved \in DOMAIN ProjectTargets THEN ProjectTargets[resolved] ELSE ""

\* cmMakefile::GetCurrentBinaryDirectory
GetCurrentBinaryDirectory == "/bin"

\* cmSystemTools::FileIsFullPath on the file names the commands are given.
FileIsFullPath(name) == name \in {"/bin/out.cmake", "/src/in.cmake"}

\* cmSystemTools::GetFilenameLastExtension on the file names the commands are
\* given: the name from its last "." on.
GetFilenameLastExtension(name) ==
  CASE name \in {"out.cmake", "/bin/out.cmake", "/src/in.cmake",
                 "../src/up.cmake"} -> ".cmake"
    [] name = "out.txt" -> ".txt"
    [] name = "Android.mk" -> ".mk"
    [] OTHER -> ""

\* The file a path denotes lies in the source tree.
InSourceTree(path) == path \in {"/src/in.cmake", "/bin/../src/up.cmake"}

\* cmMakefile::CanIWriteThisFile: a file in the source tree may not be
\* written.
CanIWriteThisFile(path) == ~InSourceTree(path)

\* cmMakefile::GetGeneratorConfigs(IncludeEmptyConfig)
GetGeneratorConfigs == <<"">>

\* cmIsOn / cmIsOff on the values ENABLED is given.
cmIsOn(v) == v \in {"1", "ON", "YES", "TRUE", "Y"}

cmIsOff(v) == v \in {"0", "OFF", "NO", "FALSE", "N", "IGNORE", "NOTFOUND", ""}

-----------------------------------------------------------------------------
(* cmArgumentParser *)

\* A binding gives the field a keyword fills and how: a "flag" is set, a
\* "string" takes the next value, a "list" takes every value up to the next
\* keyword, "groups" opens a new list of values at each occurrence.
Bind(keyword, field, kind) == keyword :> [field |-> field, kind |-> kind]

\* One token.  A value with no keyword open to take it is an unknown
\* argument.
ParseArgument(p, bindings, tok) ==
  IF tok \in DOMAIN bindings
  THEN LET b == bindings[tok]
           seen == [p EXCEPT !.seen = @ \cup {tok}, !.open = tok]
       IN CASE b.kind = "flag" ->
                 [seen EXCEPT !.args[b.field] = TRUE, !.open = ""]
            [] b.kind = "groups" ->
                 [seen EXCEPT !.args[b.field] = Append(@, <<>>)]
            [] OTHER -> seen
  ELSE IF p.open = ""
  THEN [p EXCEPT !.unknownArgs = Append(@, tok)]
  ELSE LET b == bindings[p.open]
       IN CASE b.kind = "string" ->
                 [p EXCEPT !.args[b.field] = tok, !.open = ""]
            [] b.kind = "list" ->
                 [p EXCEPT !.args[b.field] = Append(@, tok)]
            [] b.kind = "groups" ->
                 [p EXCEPT !.args[b.field] =
                    [@ EXCEPT ![Len(@)] = Append(@, tok)]]

RECURSIVE ParseArguments(_, _, _)
ParseArguments(p, bindings, tokens) ==
  IF tokens = <<>> THEN p
  ELSE ParseArguments(ParseArgument(p, bindings, Head(tokens)), bindings,
                      Tail(tokens))

\* parser.Parse(args, &unknownArgs): the bound values, the keywords seen and
\* the unknown arguments.
ParseWith(bindings, initial, tokens) ==
  ParseArguments([args |-> initial, seen |-> {}, unknownArgs |-> <<>>,
                  open |-> ""], bindings, tokens)

-----------------------------------------------------------------------------
(* cmExportCommand *)

\* struct Arguments before parsing.
Arguments ==
  [ExportSetName |-> "", Targets |-> <<>>, Namespace |-> "", Filename |-> "",
   AndroidMKFile |-> "", CxxModulesDirectory |-> "", Append |-> FALSE,
   ExportOld |-> FALSE, PackageDependencyArgs |-> <<>>,
   ExportPackageDependencies |-> FALSE, TargetArgs |-> <<>>]

\* The keywords bound for the form args[0] selects.
ExportBindings(form) ==
  Bind("NAMESPACE", "Namespace", "string")
    @@ Bind("FILE", "Filename", "string")
    @@ Bind("CXX_MODULES_DIRECTORY", "CxxModulesDirectory", "string")
    @@ (IF form = "EXPORT"
        THEN Bind("EXPORT", "ExportSetName", "string")
               @@ (IF HasSupportEnabled("ExportPackageDependencies")
                   THEN Bind("EXPORT_PACKAGE_DEPENDENCIES",
                             "ExportPackageDependencies", "flag")
                   ELSE <<>>)
        ELSE IF form = "SETUP"
        THEN Bind("SETUP", "ExportSetName", "string")
               @@ (IF HasSupportEnabled("ExportPackageDependencies")
                   THEN Bind("PACKAGE_DEPENDENCY", "PackageDependencyArgs",
                             "groups")
                   ELSE <<>>)
               @@ Bind("TARGET", "TargetArgs", "groups")
        ELSE Bind("TARGETS", "Targets", "list")
               @@ Bind("ANDROID_MK", "AndroidMKFile", "string")
               @@ Bind("APPEND", "Append", "flag")
               @@ Bind("EXPORT_LINK_INTERFACE_LIBRARIES", "ExportOld", "flag"))

\* status.SetError(text); return false;
Fail(x, text) == [x EXCEPT !.error = text, !.ret = FALSE, !.returned = TRUE]

\* return true;
Succeed(x) == [x EXCEPT !.ret = TRUE, !.returned = TRUE]

UnknownArgument(unknownArgs) ==
  "Unknown argument: \"" \o Head(unknownArgs) \o "\"."

\* cmMakefile::IssueMessage
IssueMessage(x, type, text) ==
  [x EXCEPT !.messages = @ \cup {[type |-> type, text |-> text]}]

\* An export set with nothing in it.
EmptyExportSet == [TargetExports |-> <<>>, PackageDependencies |-> <<>>]

\* setMap[name]: the export set of that name, created empty on first
\* reference.
GetOrCreateExportSet(x, name) ==
  IF name \in DOMAIN x.ExportSets THEN x
  ELSE [x EXCEPT !.ExportSets = @ @@ (name :> EmptyExportSet)]

\* cmExportSet::GetPackageDependencyForSetup: the record of the package in
\* the set, created on first reference.
GetPackageDependencyForSetup(x, set, package) ==
  IF package \in DOMAIN x.ExportSets[set].PackageDependencies THEN x
  ELSE [x EXCEPT !.ExportSets[set].PackageDependencies =
          @ @@ (package :> [Enabled |-> "Auto", ExtraArguments |-> <<>>])]

\* cmExportSet::SetXcFrameworkLocation: the location of the member of that
\* name; for a name that is no member nothing is recorded and the set notes
\* an unknown target.
SetXcFrameworkLocation(x, set, name, location) ==
  LET exports == x.ExportSets[set].TargetExports
  IN IF \E i \in 1..Len(exports) : exports[i].TargetName = name
     THEN [x EXCEPT !.ExportSets[set].TargetExports =
             [i \in 1..Len(exports) |->
                IF exports[i].TargetName = name
                THEN [exports[i] EXCEPT !.XcFrameworkLocation = location]
                ELSE exports[i]]]
     ELSE [x EXCEPT !.events = @ \cup {"UnknownTargetError"}]

PackageDependencyArguments == [Enabled |-> "", ExtraArgs |-> <<>>]

\* Faulty variant: the extra arguments of the group replace those of the
\* record.
SetupPackageDependency_ReplaceExtraArgs(x, set, packageDependencyArgs) ==
  IF x.returned \/ packageDependencyArgs = <<>> THEN x
  ELSE
    LET parsed == ParseWith(Bind("ENABLED", "Enabled", "string")
                              @@ Bind("EXTRA_ARGS", "ExtraArgs", "list"),
                            PackageDependencyArguments,
                            Tail(packageDependencyArgs))
        package == Head(packageDependencyArgs)
        found == GetPackageDependencyForSetup(x, set, package)
        Enabled == parsed.args.Enabled
        extended(y) ==
          [y EXCEPT !.ExportSets[set].PackageDependencies[package].ExtraArguments =
             IF parsed.args.ExtraArgs = <<>> THEN @ ELSE parsed.args.ExtraArgs]
        enabled(value) ==
          [found EXCEPT
             !.ExportSets[set].PackageDependencies[package].Enabled = value]
    IN IF parsed.unknownArgs # <<>>
       THEN Fail(x, UnknownArgument(parsed.unknownArgs))
       ELSE IF Enabled # ""
       THEN IF Enabled = "AUTO" THEN extended(enabled("Auto"))
            ELSE IF cmIsOff(Enabled) THEN extended(enabled("Off"))
            ELSE IF cmIsOn(Enabled) THEN extended(enabled("On"))
            ELSE Fail(found,
                      "Invalid enable setting for package dependency: \""
                        \o Enabled \o "\"")
       ELSE extended(found)

\* One PACKAGE_DEPENDENCY group of SETUP.
SetupPackageDependency(x, set, packageDependencyArgs) ==
  IF x.returned \/ packageDependencyArgs = <<>> THEN x
  ELSE
    LET parsed == ParseWith(Bind("ENABLED", "Enabled", "string")
                              @@ Bind("EXTRA_ARGS", "ExtraArgs", "list"),
                            PackageDependencyArguments,
                            Tail(packageDependencyArgs))
        package == Head(packageDependencyArgs)
        found == GetPackageDependencyForSetup(x, set, package)
        Enabled == parsed.args.Enabled
        extended(y) ==
          [y EXCEPT !.ExportSets[set].PackageDependencies[package].ExtraArguments =
             @ \o parsed.args.ExtraArgs]
        enabled(value) ==
          [found EXCEPT
             !.ExportSets[set].PackageDependencies[package].Enabled = value]
    IN IF parsed.unknownArgs # <<>>
       THEN Fail(x, UnknownArgument(parsed.unknownArgs))
       ELSE IF Enabled # ""
       THEN IF Enabled = "AUTO" THEN extended(enabled("Auto"))
            ELSE IF cmIsOff(Enabled) THEN extended(enabled("Off"))
            ELSE IF cmIsOn(Enabled) THEN extended(enabled("On"))
            ELSE Fail(found,
                      "Invalid enable setting for package dependency: \""
                        \o Enabled \o "\"")
       ELSE extended(found)

TargetArguments == [XcFrameworkLocation |-> ""]

\* One TARGET group of SETUP.
SetupTarget(x, set, targetArgs) ==
  IF x.returned \/ targetArgs = <<>> THEN x
  ELSE
    LET parsed == ParseWith(Bind("XCFRAMEWORK_LOCATION", "XcFrameworkLocation",
                                 "string"),
                            TargetArguments, Tail(targetArgs))
    IN IF parsed.unknownArgs # <<>>
       THEN Fail(x, UnknownArgument(parsed.unknownArgs))
       ELSE SetXcFrameworkLocation(x, set, Head(targetArgs),
                                   parsed.args.XcFrameworkLocation)

RECURSIVE SetupPackageDependencies(_, _, _)
SetupPackageDependencies(x, set, groups) ==
  IF groups = <<>> THEN x
  ELSE SetupPackageDependencies(SetupPackageDependency(x, set, Head(groups)),
                                set, Tail(groups))

RECURSIVE SetupTargets(_, _, _)
SetupTargets(x, set, groups) ==
  IF groups = <<>> THEN x
  ELSE SetupTargets(SetupTarget(x, set, Head(groups)), set, Tail(groups))

\* The SETUP form.
Setup(x, arguments) ==
  LET set == arguments.ExportSetName
      created == GetOrCreateExportSet(x, set)
      dependencies ==
        SetupPackageDependencies(created, set, arguments.PackageDependencyArgs)
      located == SetupTargets(dependencies, set, arguments.TargetArgs)
  IN IF located.returned THEN located ELSE Succeed(located)

\* fname and android as lines 203-226 leave them: ANDROID_MK names the file
\* if given; else FILE must be given (the EXPORT form defaults to the name of
\* the set) and must end in ".cmake".
ChooseFileName(x, form, arguments) ==
  LET android == arguments.AndroidMKFile # ""
      fname == IF android THEN arguments.AndroidMKFile ELSE ""
  IN IF arguments.Filename = "" /\ fname = ""
     THEN IF form # "EXPORT"
          THEN Fail(x, "FILE <filename> option missing.")
          ELSE [x EXCEPT !.fname = arguments.ExportSetName \o ".cmake",
                         !.android = android]
     ELSE IF fname = ""
     THEN IF GetFilenameLastExtension(arguments.Filename) # ".cmake"
          THEN Fail(x, "FILE option given filename \"" \o arguments.Filename
                         \o "\" which does not have an extension of \".cmake\".\n")
          ELSE [x EXCEPT !.fname = arguments.Filename, !.android = android]
     ELSE [x EXCEPT !.fname = fname, !.android = android]

\* Faulty variant: a relative name is bound as it is given.
LocateFile_KeepRelative(x) ==
  IF x.returned THEN x
  ELSE IF FileIsFullPath(x.fname)
  THEN IF ~CanIWriteThisFile(x.fname)
       THEN Fail(x, "FILE option given filename \"" \o x.fname
                      \o "\" which is in the source tree.\n")
       ELSE x
  ELSE x

\* The file to write: a full path must be writable, a relative one is taken
\* from the current build directory.
LocateFile(x) ==
  IF x.returned THEN x
  ELSE IF FileIsFullPath(x.fname)
  THEN IF ~CanIWriteThisFile(x.fname)
       THEN Fail(x, "FILE option given filename \"" \o x.fname
                      \o "\" which is in the source tree.\n")
       ELSE x
  ELSE [x EXCEPT !.fname = GetCurrentBinaryDirectory \o "/" \o x.fname]

\* Faulty variant: the target is looked up before the alias check.
TargetError_LookupFirst(currentTarget) ==
  IF FindTarget(currentTarget) # ""
  THEN IF FindTarget(currentTarget) = "UTILITY"
       THEN "given custom target \"" \o currentTarget
              \o "\" which may not be exported."
       ELSE IF IsAlias(currentTarget)
            THEN "given ALIAS target \"" \o currentTarget
                   \o "\" which may not be exported."
            ELSE ""
  ELSE "given target \"" \o currentTarget
         \o "\" which is not built by this project."

\* The error one listed name gives, "" when it can be exported.
TargetError(currentTarget) ==
  IF IsAlias(currentTarget)
  THEN "given ALIAS target \"" \o currentTarget
         \o "\" which may not be exported."
  ELSE IF FindTarget(currentTarget) # ""
  THEN IF FindTarget(currentTarget) = "UTILITY"
       THEN "given custom target \"" \o currentTarget
              \o "\" which may not be exported."
       ELSE ""
  ELSE "given target \"" \o currentTarget
         \o "\" which is not built by this project."

\* The loop over the listed names: the first name with an error ends the
\* command, the names before it are collected.
RECURSIVE CollectTargets(_, _)
CollectTargets(x, names) ==
  IF names = <<>> THEN x
  ELSE IF TargetError(Head(names)) # ""
  THEN Fail(x, TargetError(Head(names)))
  ELSE CollectTargets(
         [x EXCEPT !.targets =
            Append(@, [TargetName |-> Head(names), XcFrameworkLocation |-> ""])],
         Tail(names))

\* cmGlobalGenerator::GetExportedTargetsFile: the index of the generator of
\* the file, 0 when there is none.
GetExportedTargetsFile(x, filename) ==
  IF filename \in DOMAIN x.BuildExportSets
  THEN x.BuildExportSets[filename]
  ELSE 0

\* The entries of new whose name is neither in old nor earlier in new.
RECURSIVE NewTargets(_, _)
NewTargets(old, new) ==
  IF new = <<>> THEN <<>>
  ELSE IF \E i \in 1..Len(old) : old[i].TargetName = Head(new).TargetName
  THEN NewTargets(old, Tail(new))
  ELSE <<Head(new)>> \o NewTargets(Append(old, Head(new)), Tail(new))

\* cmExportBuildFileGenerator::AppendTargets: the new targets are merged into
\* the list, once per target name, in the order given.
AppendTargets(x, ebfg, targets) ==
  [x EXCEPT !.Generators[ebfg].Targets = @ \o NewTargets(@, targets)]

\* cmGlobalGenerator::AddBuildExportSet / AddBuildExportExportSet: the file
\* of the generator now maps to it.
AddBuildExportSet(x, ebfg) ==
  LET file == x.Generators[ebfg].ExportFile
  IN [x EXCEPT !.BuildExportSets =
        [f \in DOMAIN @ \cup {file} |-> IF f = file THEN ebfg ELSE @[f]]]

\* cmMakefile::AddExportBuildFileGenerator
AddExportBuildFileGenerator(x, generator) ==
  [x EXCEPT !.Generators = Append(@, generator)]

\* The error of a second binding of a file.
AlreadySpecified(arguments) ==
  "command already specified for the file\n  " \o arguments.Filename
    \o "\nDid you miss 'APPEND' keyword?"

\* Faulty variant: OLD warns as WARN does.
CheckAlreadySpecified_OldWarns(x, arguments) ==
  IF GetExportedTargetsFile(x, x.fname) # 0
  THEN IF PolicyStatus["CMP0103"] \in {"WARN", "OLD"}
       THEN IssueMessage(x, "AUTHOR_WARNING",
                         "CMP0103\nexport() " \o AlreadySpecified(arguments))
       ELSE Fail(x, AlreadySpecified(arguments))
  ELSE x

\* Faulty variant: a file that already has a generator is bound again
\* whatever the policy.
CheckAlreadySpecified_Ignore(x, arguments) ==
  IF GetExportedTargetsFile(x, x.fname) # 0
       /\ PolicyStatus["CMP0103"] = "WARN"
  THEN IssueMessage(x, "AUTHOR_WARNING",
                    "CMP0103\nexport() " \o AlreadySpecified(arguments))
  ELSE x

\* A file that already has a generator: CMP0103 WARN warns and goes on, OLD
\* goes on, anything else is an error.
CheckAlreadySpecified(x, arguments) ==
  IF GetExportedTargetsFile(x, x.fname) # 0
  THEN CASE PolicyStatus["CMP0103"] = "WARN" ->
              IssueMessage(x, "AUTHOR_WARNING",
                           "CMP0103\nexport() " \o AlreadySpecified(arguments))
         [] PolicyStatus["CMP0103"] = "OLD" -> x
         [] OTHER -> Fail(x, AlreadySpecified(arguments))
  ELSE x

\* Setup export file generation: a new generator for fname, holding the
\* export set or the collected targets, is added to the makefile and becomes
\* the generator of the file.
SetupExportFileGeneration(x, arguments, exportSet) ==
  LET ebfg ==
        [ExportFile |-> x.fname,
         android |-> x.android,
         AppendMode |-> arguments.Append,
         ExportOld |-> ~x.android /\ arguments.ExportOld,
         ExportPackageDependencies |->
           ~x.android /\ arguments.ExportPackageDependencies,
         Namespace |-> arguments.Namespace,
         CxxModuleDirectory |-> arguments.CxxModulesDirectory,
         HasExportSet |-> exportSet,
         ExportSet |-> IF exportSet THEN arguments.ExportSetName ELSE "",
         Targets |-> IF exportSet THEN <<>> ELSE x.targets,
         Configurations |-> GetGeneratorConfigs]
      added == AddExportBuildFileGenerator(x, ebfg)
  IN Succeed(AddBuildExportSet(added, Len(added.Generators)))

\* Faulty variant: the generator is set up before the file is checked.
BindFile_SetupFirst(x, arguments, exportSet) ==
  LET checked == CheckAlreadySpecified(x, arguments)
  IN IF checked.returned
     THEN Fail(SetupExportFileGeneration(x, arguments, exportSet),
               checked.error)
     ELSE SetupExportFileGeneration(checked, arguments, exportSet)

\* From the check of the file on (lines 297-355).
BindFile(x, arguments, exportSet) ==
  LET checked == CheckAlreadySpecified(x, arguments)
  IN IF checked.returned THEN checked
     ELSE SetupExportFileGeneration(checked, arguments, exportSet)

\* Faulty variant: the set is looked up the way SETUP does, which creates
\* it.
ExportExportSet_Creates(x, arguments) ==
  BindFile(GetOrCreateExportSet(x, arguments.ExportSetName), arguments, TRUE)

\* The EXPORT form: the set must exist.
ExportExportSet(x, arguments) ==
  IF arguments.ExportSetName \notin DOMAIN x.ExportSets
  THEN Fail(x, "Export set \"" \o arguments.ExportSetName \o "\" not found.")
  ELSE BindFile(x, arguments, TRUE)

\* Faulty variant: the targets are also appended, without APPEND, to a
\* generator that was set up in append mode.
ExportTargets_AppendModeMerges(x, arguments) ==
  LET collected == CollectTargets(x, arguments.Targets)
      ebfg == GetExportedTargetsFile(collected, x.fname)
  IN IF collected.returned THEN collected
     ELSE IF ebfg # 0
               /\ (arguments.Append \/ collected.Generators[ebfg].AppendMode)
     THEN Succeed(AppendTargets(collected, ebfg, collected.targets))
     ELSE BindFile(collected, arguments, FALSE)

\* Faulty variant: with APPEND the collected targets replace the targets of
\* the generator the file has.
ExportTargets_AppendReplaces(x, arguments) ==
  LET collected == CollectTargets(x, arguments.Targets)
      ebfg == GetExportedTargetsFile(collected, x.fname)
  IN IF collected.returned THEN collected
     ELSE IF arguments.Append /\ ebfg # 0
     THEN Succeed([collected EXCEPT !.Generators[ebfg].Targets =
                     collected.targets])
     ELSE BindFile(collected, arguments, FALSE)

\* The TARGETS form: the listed targets are collected; with APPEND they are
\* appended to the generator the file has, if it has one.
ExportTargets(x, arguments) ==
  LET collected == CollectTargets(x, arguments.Targets)
  IN IF collected.returned THEN collected
     ELSE IF arguments.Append /\ GetExportedTargetsFile(collected, x.fname) # 0
     THEN Succeed(AppendTargets(collected,
                                GetExportedTargetsFile(collected, x.fname),
                                collected.targets))
     ELSE BindFile(collected, arguments, FALSE)

-----------------------------------------------------------------------------
(* The PACKAGE form and the user package registry *)

\* The platforms the registry code is built for: the Windows registry, the
\* per-user directory under HOME, and the Haiku user settings directory.
Platforms == {"Windows", "Unix", "Haiku"}

\* What the registry backend of a platform can refuse: creating or opening
\* the key and setting the value on Windows, opening the entry for writing
\* and completing the write elsewhere.
RegistryFaults(platform) ==
  IF platform = "Windows" THEN {"none", "RegCreateKeyExW", "RegSetValueExW"}
  ELSE {"none", "open", "write"}

\* What cmSystemTools::GetEnv("HOME") or find_directory can yield.
UserDirectories(platform) ==
  CASE platform = "Windows" -> {Undef}
    [] platform = "Haiku" -> {Undef, "/boot/home/config/settings"}
    [] OTHER -> {Undef, "/home/u/"}

\* cmMakefile::IsOn: the variable is defined and holds an on-value.
IsOn(name) == definitions[name] # Undef /\ cmIsOn(definitions[name])

\* The characters of the package names the commands are given.
Characters(name) ==
  CASE name = "Foo" -> <<"F", "o", "o">>
    [] name = "b-1.x_y" -> <<"b", "-", "1", ".", "x", "_", "y">>
    [] name = "Foo Bar" -> <<"F", "o", "o", " ", "B", "a", "r">>
    [] name = "Foo+" -> <<"F", "o", "o", "+">>
    [] name = "" -> <<>>

\* The characters of the class [A-Za-z0-9_.-].
packageExprClass ==
  {"A", "B", "C", "D", "E", "F", "G", "H", "I", "J", "K", "L", "M", "N", "O",
   "P", "Q", "R", "S", "T", "U", "V", "W", "X", "Y", "Z",
   "a", "b", "c", "d", "e", "f", "g", "h", "i", "j", "k", "l", "m", "n", "o",
   "p", "q", "r", "s", "t", "u", "v", "w", "x", "y", "z",
   "0", "1", "2", "3", "4", "5", "6", "7", "8", "9", "_", ".", "-"}

packageExpr == "^[A-Za-z0-9_.-]+$"

\* cmsys::RegularExpression("^[A-Za-z0-9_.-]+$").find(package): one or more
\* characters, all of the class, from the start to the end of the name.
packageRegexFind(package) ==
  /\ Len(Characters(package)) >= 1
  /\ \A i \in 1..Len(Characters(package)) :
       Characters(package)[i] \in packageExprClass

\* cmCryptoHash(AlgoMD5).HashString on the directories hashed.
HashString(input) ==
  CASE input = "/bin" -> "1e80cb7e0fbfc9f5c0509a465ecdf6cf"

\* cmSystemTools::ConvertToUnixSlashes on the directories converted: a
\* trailing slash is removed.
ConvertToUnixSlashes(path) ==
  CASE path = "/home/u/" -> "/home/u"
    [] OTHER -> path

\* cmsys::Encoding::ToWide: the value the registry holds is a wide string.
ToWide(content) == [type |-> "REG_SZ", wide |-> content]

\* cmSystemTools::MakeDirectory
MakeDirectory(x, dir) == [x EXCEPT !.Registry.directories = @ \cup {dir}]

\* cmSystemTools::FileExists on an entry of the registry.
FileExists(x, fname) == fname \in DOMAIN x.Registry.entries

\* An entry is put into the registry; the write is remembered for the record
\* of the invocation.
WriteEntry(x, name, value) ==
  Event([x EXCEPT !.Registry.entries = (name :> value) @@ @], "write")

\* ReportRegistryError: a warning naming the key.
ReportRegistryError(x, msg, key) ==
  IssueMessage(x, "WARNING",
               msg \o "\n  HKEY_CURRENT_USER\\" \o key \o "\n")

\* StorePackageRegistry for the Windows registry: the key of the package is
\* created or opened, and the value named by the hash is set.
StorePackageRegistryWindows(x, package, content, hash) ==
  LET key == "Software\\Kitware\\CMake\\Packages\\" \o package
  IN IF RegistryFault = "RegCreateKeyExW"
     THEN ReportRegistryError(x, "Cannot create/open registry key", key)
     ELSE LET opened == MakeDirectory(x, key)
          IN IF RegistryFault = "RegSetValueExW"
             THEN ReportRegistryError(
                    opened,
                    "Cannot set registry value \"" \o hash \o "\" under key",
                    key)
             ELSE WriteEntry(opened, key \o "\\" \o hash, ToWide(content))

\* Faulty variant: the entry is written whether or not it exists.
StorePackageRegistryFile_NoExistenceCheck(x, package, content, hash) ==
  IF UserDirectory = Undef THEN x
  ELSE LET fname ==
             IF Platform = "Haiku"
             THEN UserDirectory \o "/cmake/packages/" \o package
             ELSE ConvertToUnixSlashes(UserDirectory) \o "/.cmake/packages/"
                    \o package
           made == MakeDirectory(x, fname)
           entry == fname \o "/" \o hash
       IN IF RegistryFault = "open"
          THEN IssueMessage(made, "WARNING",
                            "Cannot create package registry file:\n  "
                              \o entry \o "\n")
          ELSE IF RegistryFault = "write" THEN made
          ELSE WriteEntry(made, entry, content \o "\n")

\* Faulty variant: an entry that cannot be opened is passed over in silence.
StorePackageRegistryFile_NoWarning(x, package, content, hash) ==
  IF UserDirectory = Undef THEN x
  ELSE LET fname ==
             IF Platform = "Haiku"
             THEN UserDirectory \o "/cmake/packages/" \o package
             ELSE ConvertToUnixSlashes(UserDirectory) \o "/.cmake/packages/"
                    \o package
           made == MakeDirectory(x, fname)
           entry == fname \o "/" \o hash
       IN IF FileExists(made, entry) THEN made
          ELSE IF RegistryFault \in {"open", "write"} THEN made
          ELSE WriteEntry(made, entry, content \o "\n")

\* StorePackageRegistry for the per-user directory: nothing is done without
\* the directory of the user; the directory of the package is made, and the
\* entry named by the hash is written unless it exists.  An entry that
\* cannot be opened for writing is a warning; a write that does not complete
\* leaves no entry.
StorePackageRegistryFile(x, package, content, hash) ==
  IF UserDirectory = Undef THEN x
  ELSE LET fname ==
             IF Platform = "Haiku"
             THEN UserDirectory \o "/cmake/packages/" \o package
             ELSE ConvertToUnixSlashes(UserDirectory) \o "/.cmake/packages/"
                    \o package
           made == MakeDirectory(x, fname)
           entry == fname \o "/" \o hash
       IN IF FileExists(made, entry) THEN made
          ELSE IF RegistryFault = "open"
          THEN IssueMessage(made, "WARNING",
                            "Cannot create package registry file:\n  "
                              \o entry \o "\n")
          ELSE IF RegistryFault = "write" THEN made
          ELSE WriteEntry(made, entry, content \o "\n")

\* StorePackageRegistry, as built for the platform.
StorePackageRegistry(x, package, content, hash) ==
  IF Platform = "Windows"
  THEN StorePackageRegistryWindows(Event(x, "StorePackageRegistry"),
                                   package, content, hash)
  ELSE StorePackageRegistryFile(Event(x, "StorePackageRegistry"),
                                package, content, hash)

\* The loop over args[1..]: the first is the package name, any other is
\* unknown.  The result is the name and the unknown argument, if any.
RECURSIVE ParsePackageArguments(_, _, _)
ParsePackageArguments(args, i, parsed) ==
  IF i > Len(args) THEN parsed
  ELSE IF parsed.doing = "DoingPackage"
  THEN ParsePackageArguments(args, i + 1,
                             [parsed EXCEPT !.package = args[i],
                                            !.doing = "DoingNone"])
  ELSE [parsed EXCEPT !.unknown = <<args[i]>>]

\* Faulty variant: the variable of the other policy state is read.
RegistryDisabled_OtherVariable ==
  CASE PolicyStatus["CMP0090"] \in {"WARN", "OLD"} ->
         ~IsOn("CMAKE_EXPORT_PACKAGE_REGISTRY")
    [] OTHER -> IsOn("CMAKE_EXPORT_NO_PACKAGE_REGISTRY")

\* Faulty variant: WARN is taken with NEW.
RegistryDisabled_WarnAsNew ==
  CASE PolicyStatus["CMP0090"] = "OLD" ->
         IsOn("CMAKE_EXPORT_NO_PACKAGE_REGISTRY")
    [] OTHER -> ~IsOn("CMAKE_EXPORT_PACKAGE_REGISTRY")

\* CMP0090: under WARN and OLD the package is exported unless
\* CMAKE_EXPORT_NO_PACKAGE_REGISTRY is on, under NEW it is not exported
\* unless CMAKE_EXPORT_PACKAGE_REGISTRY is on.
RegistryDisabled ==
  CASE PolicyStatus["CMP0090"] \in {"WARN", "OLD"} ->
         IsOn("CMAKE_EXPORT_NO_PACKAGE_REGISTRY")
    [] OTHER -> ~IsOn("CMAKE_EXPORT_PACKAGE_REGISTRY")

\* Faulty variant: the package name is verified after the registry is
\* written.
HandlePackage_StoreFirst(x, args) ==
  LET parsed == ParsePackageArguments(args, 2,
                  [doing |-> "DoingPackage", package |-> "", unknown |-> <<>>])
      package == parsed.package
      outDir == GetCurrentBinaryDirectory
      stored == IF RegistryDisabled THEN x
                ELSE StorePackageRegistry(x, package, outDir,
                                          HashString(outDir))
  IN IF parsed.unknown # <<>>
     THEN Fail(stored, "PACKAGE given unknown argument: " \o parsed.unknown[1])
     ELSE IF package = ""
     THEN Fail(stored, "PACKAGE must be given a package name.")
     ELSE IF ~packageRegexFind(package)
     THEN Fail(stored, "PACKAGE given invalid package name \"" \o package
                         \o "\".  Package names must match \"" \o packageExpr
                         \o "\".")
     ELSE Succeed(stored)

\* export(PACKAGE <name>): the name is verified, CMP0090 and the variable it
\* selects decide whether the package is exported, and the current build
\* directory is stored under the hash of its own name.
HandlePackage(x, args) ==
  LET parsed == ParsePackageArguments(args, 2,
                  [doing |-> "DoingPackage", package |-> "", unknown |-> <<>>])
      package == parsed.package
      outDir == GetCurrentBinaryDirectory
  IN IF parsed.unknown # <<>>
     THEN Fail(x, "PACKAGE given unknown argument: " \o parsed.unknown[1])
     ELSE IF package = ""
     THEN Fail(x, "PACKAGE must be given a package name.")
     ELSE IF ~packageRegexFind(package)
     THEN Fail(x, "PACKAGE given invalid package name \"" \o package
                    \o "\".  Package names must match \"" \o packageExpr
                    \o "\".")
     ELSE IF RegistryDisabled THEN Succeed(x)
     ELSE Succeed(StorePackageRegistry(x, package, outDir, HashString(outDir)))

\* The command from its first line to its return.
ExportCommand(x, args) ==
  IF Len(args) < 2 THEN Fail(x, "called with too few arguments")
  ELSE IF args[1] = "PACKAGE" THEN HandlePackage(x, args)
  ELSE
    LET form == args[1]
        parsed == ParseWith(ExportBindings(form), Arguments, args)
        arguments == parsed.args
    IN IF parsed.unknownArgs # <<>>
       THEN Fail(x, UnknownArgument(parsed.unknownArgs))
       ELSE IF form = "SETUP" THEN Setup(x, arguments)
       ELSE LET located == LocateFile(ChooseFileName(x, form, arguments))
            IN IF located.returned THEN located
               ELSE IF form = "EXPORT" THEN ExportExportSet(located, arguments)
               ELSE IF "TARGETS" \in parsed.seen
               THEN ExportTargets(located, arguments)
               ELSE Fail(located, "EXPORT or TARGETS specifier missing.")

\* The state a command starts on.
ExportMachine ==
  [ExportSets |-> ExportSets, BuildExportSets |-> BuildExportSets,
   Generators |-> ExportBuildFileGenerators, Registry |-> PackageRegistry,
   error |-> "", ret |-> FALSE, returned |-> FALSE,
   messages |-> {}, events |-> {},
   fname |-> "", android |-> FALSE, targets |-> <<>>]

\* A user package registry with nothing in it.
EmptyRegistry == [directories |-> {}, entries |-> <<>>]

\* The registry before the first command, on a system that refuses nothing.
NoRegistry ==
  /\ PackageRegistry = EmptyRegistry
  /\ Platform = "Unix"
  /\ UserDirectory = "/home/u"
  /\ RegistryFault = "none"

\* No export command has run yet.
NoExportCall ==
  [args |-> <<>>, ret |-> TRUE, error |-> "", messages |-> {}, events |-> {},
   fname |-> "",
   entry |-> [ExportSets |-> <<>>, BuildExportSets |-> <<>>,
              Generators |-> <<>>, Registry |-> EmptyRegistry]]

\* Export state before the first command.
NoExports ==
  /\ ExportSets = <<>>
  /\ BuildExportSets = <<>>
  /\ ExportBuildFileGenerators = <<>>
  /\ PolicyStatus = [p \in Policies |-> "NEW"]
  /\ ExperimentalFeatures = {}
  /\ exportCall = NoExportCall
  /\ NoRegistry

\* The most generators a makefile is given.
MaxGenerators == 2

\* The most extra arguments a package dependency is given.
MaxExtraArguments == 3

\* One export(args...) command, from entry to return.
cmExportCommand(args) ==
  /\ pc = "idle"
  /\ \E x \in {ExportCommand(ExportMachine, args)} :
        /\ Len(x.Generators) <= MaxGenerators
        /\ \A s \in DOMAIN x.ExportSets :
             \A p \in DOMAIN x.ExportSets[s].PackageDependencies :
               Len(x.ExportSets[s].PackageDependencies[p].ExtraArguments)
                 <= MaxExtraArguments
        /\ ExportSets' = x.ExportSets
        /\ BuildExportSets' = x.BuildExportSets
        /\ ExportBuildFileGenerators' = x.Generators
        /\ exportCall' =
             [args |-> args, ret |-> x.ret, error |-> x.error,
              messages |-> x.messages, events |-> x.events,
              fname |-> x.fname,
              entry |-> [ExportSets |-> ExportSets,
                         BuildExportSets |-> BuildExportSets,
                         Generators |-> ExportBuildFileGenerators,
                         Registry |-> PackageRegistry]]
        /\ PackageRegistry' = x.Registry
  /\ pc' = "returned"
  /\ UNCHANGED <<ErrorOccurredFlag, ctestVars, PolicyStatus,
                 ExperimentalFeatures, Platform, UserDirectory, RegistryFault>>

\* The caller of cmExportCommand goes on to the next command after a command
\* that returned true; a command that returns false is a fatal error, which
\* ends the configure pass.  The record of the invocation ends with the
\* command.
ExecuteExportCommand ==
  /\ pc = "returned"
  /\ exportCall.ret
  /\ pc' = "idle"
  /\ exportCall' = NoExportCall
  /\ UNCHANGED <<ErrorOccurredFlag, ctestVars, ExportSets, BuildExportSets,
                 ExportBuildFileGenerators, PolicyStatus, ExperimentalFeatures,
                 registryVars>>

\* install(TARGETS target EXPORT set): the target becomes a member of the
\* export set, which is created on first reference.
InstallTargets(set, target) ==
  /\ pc = "idle"
  /\ \A i \in 1..Len(GetOrCreateExportSet(ExportMachine, set)
                       .ExportSets[set].TargetExports) :
       GetOrCreateExportSet(ExportMachine, set)
         .ExportSets[set].TargetExports[i].TargetName # target
  /\ ExportSets' =
       [GetOrCreateExportSet(ExportMachine, set).ExportSets EXCEPT
          ![set].TargetExports =
             Append(@, [TargetName |-> target, XcFrameworkLocation |-> ""])]
  /\ UNCHANGED <<ErrorOccurredFlag, ctestVars, pc, BuildExportSets,
                 ExportBuildFileGenerators, PolicyStatus, ExperimentalFeatures,
                 exportCall, registryVars>>

\* The registry backend starts or stops refusing an operation between two
\* commands.
RegistryBackendChanges(fault) ==
  /\ pc = "idle"
  /\ fault \in RegistryFaults(Platform)
  /\ fault # RegistryFault
  /\ RegistryFault' = fault
  /\ UNCHANGED <<ErrorOccurredFlag, ctestVars, pc, ExportSets, BuildExportSets,
                 ExportBuildFileGenerators, PolicyStatus, ExperimentalFeatures,
                 exportCall, PackageRegistry, Platform, UserDirectory>>

-----------------------------------------------------------------------------
(* Inputs and specifications *)

\* The longest argument list a command is called with.
MaxArguments == 5

\* What a handler that runs can do: raise an error or not, and report a
\* result and its error and warning counts.
HandlerResults ==
  {[raise |-> FALSE, res |-> 0, TotalErrors |-> 0, TotalWarnings |-> 1],
   [raise |-> FALSE, res |-> -1, TotalErrors |-> 2, TotalWarnings |-> 1],
   [raise |-> TRUE, res |-> -1, TotalErrors |-> 2, TotalWarnings |-> 1]}

CaptureArguments == {<<>>, <<"CAPTURE_CMAKE_ERROR", "v1">>}

OutputArguments ==
  {<<>>, <<"RETURN_VALUE", "v1">>, <<"RETURN_VALUE", "v2">>,
   <<"NUMBER_ERRORS", "v2">>}

\* No BUILD argument, a directory that exists, a relative one.
BuildArguments == {<<>>, <<"BUILD", "/b1">>, <<"BUILD", "rel">>}

\* A stray token, a flag given twice, a string keyword given twice.
FaultyArguments ==
  {<<>>, <<"bogus">>, <<"QUIET", "QUIET">>,
   <<"SUBMIT_INDEX", "1", "SUBMIT_INDEX", "2">>}

\* The argument lists of the handler-protocol specification.
ArgumentLists ==
  {l \in {b \o c \o o \o f : b \in BuildArguments, c \in CaptureArguments,
                            o \in OutputArguments, f \in FaultyArguments} :
     Len(l) <= MaxArguments}

\* The script variables the handler-protocol specification sets, with the
\* values it gives them.
ScriptValues(name) ==
  CASE name = "CTEST_BUILD_COMMAND" -> {Undef, "", "make"}
    [] name = "CTEST_CMAKE_GENERATOR" -> {Undef, "NoSuchGenerator"}
    [] name = "CTEST_BINARY_DIRECTORY" -> {Undef, "/b1"}
    [] OTHER -> {}

Init ==
  /\ ErrorOccurredFlag = FALSE
  /\ definitions = [n \in VariableNames |-> Undef]
  /\ ctestConfiguration = [k \in {"BuildDirectory", "MakeCommand"} |-> ""]
  /\ ConfigType = ""
  /\ commandLineConfigType = ""
  /\ cwd = "/w"
  /\ pc = "idle"
  /\ call = NoCall
  /\ NoExports

Next ==
  \/ \E arguments \in ArgumentLists, h \in HandlerResults :
       InitialPass(arguments, h)
  \/ ExecuteCommand
  \/ \E name \in AmbientVariables : \E value \in ScriptValues(name) :
       SetDefinition(name, value)
  \/ SendError

Spec == Init /\ [][Next]_vars

\* The build-command specification: the script has set its build variables
\* before the first command, ctest was started with or without -C, and the
\* script changes CTEST_CONFIGURATION_TYPE between commands.
BuildValues(name) ==
  CASE name = "CTEST_BUILD_COMMAND" -> {Undef, "make"}
    [] name = "CTEST_CMAKE_GENERATOR" ->
         {Undef, "Watcom WMake", "NoSuchGenerator"}
    [] name = "CTEST_BUILD_CONFIGURATION" -> {Undef, "", "Debug"}
    [] name = "CTEST_CONFIGURATION_TYPE" -> {Undef, "", "MinSizeRel"}
    [] name = "CTEST_BINARY_DIRECTORY" -> {"/b1"}
    [] name = "CTEST_BUILD_FLAGS" -> {Undef, "-k"}
    [] name = "CTEST_BUILD_TARGET" -> {Undef, "all"}
    [] OTHER -> {Undef}

CommandLineConfigTypes == {"", "RelWithDebInfo"}

BuildArgumentLists ==
  {l \in {c \o f \o t \o p :
            c \in {<<>>, <<"CONFIGURATION", "Profile">>},
            f \in {<<>>, <<"FLAGS", "-i">>},
            t \in {<<>>, <<"TARGET", "install">>},
            p \in {<<>>, <<"PARALLEL_LEVEL", "2">>}} :
     Len(l) <= MaxArguments}

BuildHandlerResults ==
  {[raise |-> FALSE, res |-> 0, TotalErrors |-> 0, TotalWarnings |-> 1]}

\* Every assignment of the build variables to their values.
BuildEnvironments ==
  {[n \in VariableNames |->
      CASE n = "CTEST_BUILD_COMMAND" -> bc
        [] n = "CTEST_CMAKE_GENERATOR" -> g
        [] n = "CTEST_BUILD_CONFIGURATION" -> c
        [] n = "CTEST_CONFIGURATION_TYPE" -> ct
        [] n = "CTEST_BINARY_DIRECTORY" -> d
        [] n = "CTEST_BUILD_FLAGS" -> f
        [] n = "CTEST_BUILD_TARGET" -> t
        [] OTHER -> Undef] :
     bc \in BuildValues("CTEST_BUILD_COMMAND"),
     g \in BuildValues("CTEST_CMAKE_GENERATOR"),
     c \in BuildValues("CTEST_BUILD_CONFIGURATION"),
     ct \in BuildValues("CTEST_CONFIGURATION_TYPE"),
     d \in BuildValues("CTEST_BINARY_DIRECTORY"),
     f \in BuildValues("CTEST_BUILD_FLAGS"),
     t \in BuildValues("CTEST_BUILD_TARGET")}

InitBuild ==
  /\ ErrorOccurredFlag = FALSE
  /\ definitions \in BuildEnvironments
  /\ ctestConfiguration = [k \in {"BuildDirectory", "MakeCommand"} |-> ""]
  /\ commandLineConfigType \in CommandLineConfigTypes
  /\ ConfigType = commandLineConfigType
  /\ cwd = "/w"
  /\ pc = "idle"
  /\ call = NoCall
  /\ NoExports

NextBuild ==
  \/ \E arguments \in BuildArgumentLists, h \in BuildHandlerResults :
       InitialPass(arguments, h)
  \/ ExecuteCommand
  \/ \E value \in BuildValues("CTEST_CONFIGURATION_TYPE") :
       SetDefinition("CTEST_CONFIGURATION_TYPE", value)

SpecBuild == InitBuild /\ [][NextBuild]_vars

\* The export specifications: the commands of one configure pass are
\* export(...) in its SETUP, EXPORT and TARGETS forms and install(TARGETS
\* ... EXPORT ...); the policy and the experimental features are fixed for
\* the pass.

\* TARGETS with one or two libraries and each way of naming the file.
FileCommands ==
  {<<"TARGETS", "lib">> \o f :
     f \in {<<>>,
            <<"FILE", "out.cmake">>,
            <<"FILE", "/bin/out.cmake">>,
            <<"FILE", "out.cmake", "APPEND">>,
            <<"FILE", "out.txt">>,
            <<"FILE", "/src/in.cmake">>,
            <<"FILE", "../src/up.cmake">>,
            <<"ANDROID_MK", "Android.mk">>,
            <<"ANDROID_MK", "Android.mk", "FILE", "out.txt">>,
            <<"FILE", "out.cmake", "NAMESPACE", "ns::">>,
            <<"FILE", "out.cmake", "bogus">>}}
    \cup {<<"TARGETS", "app", "FILE", "/bin/out.cmake", "APPEND">>}

\* The EXPORT form on a set that may exist and on one that never does.
ExportSetCommands ==
  {<<"EXPORT", "s1">>,
   <<"EXPORT", "s1", "FILE", "out.cmake">>,
   <<"EXPORT", "s1", "FILE", "out.txt">>,
   <<"EXPORT", "s1", "APPEND">>,
   <<"EXPORT", "nosuch">>,
   <<"EXPORT", "nosuch", "FILE", "out.cmake">>,
   <<"EXPORT", "nosuch", "FILE", "/src/in.cmake">>}

\* The SETUP form with TARGET groups.
SetupCommands ==
  {<<"SETUP", "s1">>,
   <<"SETUP", "s1", "TARGET", "lib", "XCFRAMEWORK_LOCATION", "loc">>,
   <<"SETUP", "s1", "TARGET", "app", "XCFRAMEWORK_LOCATION", "loc">>,
   <<"SETUP", "s1", "TARGET", "lib", "LOCATION", "loc">>}

\* Commands with no form.
FormlessCommands ==
  {<<"TARGETS">>, <<"FILE", "out.cmake">>}

ExportCommands ==
  FileCommands \cup ExportSetCommands \cup SetupCommands \cup FormlessCommands

\* The state before the first export command of a pass.
ExportIdle ==
  /\ ErrorOccurredFlag = FALSE
  /\ definitions = [n \in VariableNames |-> Undef]
  /\ ctestConfiguration = [k \in {"BuildDirectory", "MakeCommand"} |-> ""]
  /\ ConfigType = ""
  /\ commandLineConfigType = ""
  /\ cwd = "/w"
  /\ pc = "idle"
  /\ call = NoCall
  /\ ExportSets = <<>>
  /\ BuildExportSets = <<>>
  /\ ExportBuildFileGenerators = <<>>
  /\ ExperimentalFeatures = {}
  /\ exportCall = NoExportCall
  /\ NoRegistry

InitExport ==
  /\ ExportIdle
  /\ PolicyStatus \in {[p \in Policies |-> IF p = "CMP0103" THEN s ELSE "NEW"] :
                         s \in PolicyStatuses}

NextExport ==
  \/ \E args \in ExportCommands : cmExportCommand(args)
  \/ ExecuteExportCommand
  \/ InstallTargets("s1", "lib")

SpecExport == InitExport /\ [][NextExport]_vars

\* The target-list specification: the TARGETS form on one file, with every
\* list of names up to a length, with and without APPEND, in a project whose
\* CMP0103 is NEW.

\* The longest list of names given to TARGETS.
MaxTargets == 2

\* Every list of at most n names.
RECURSIVE ListsUpTo(_)
ListsUpTo(n) ==
  IF n = 0 THEN {<<>>}
  ELSE ListsUpTo(n - 1)
         \cup {Append(l, t) : l \in {k \in ListsUpTo(n - 1) : Len(k) = n - 1},
                              t \in TargetNames}

TargetLists == ListsUpTo(MaxTargets)

TargetsCommands ==
  {<<"TARGETS">> \o l \o <<"FILE", "out.cmake">> \o a :
     l \in TargetLists, a \in {<<>>, <<"APPEND">>}}

InitTargets ==
  /\ ExportIdle
  /\ PolicyStatus = [p \in Policies |-> "NEW"]

NextTargets ==
  \/ \E args \in TargetsCommands : cmExportCommand(args)
  \/ ExecuteExportCommand

SpecTargets == InitTargets /\ [][NextTargets]_vars

\* The package specification: the commands of one configure pass are
\* export(PACKAGE ...); the platform, the directory of the user and CMP0090
\* are fixed for the pass, the project sets the two registry variables
\* between commands, and the backend starts and stops refusing operations.

PackageCommands ==
  {<<"PACKAGE">>, <<"PACKAGE", "">>, <<"PACKAGE", "Foo">>,
   <<"PACKAGE", "b-1.x_y">>, <<"PACKAGE", "Foo Bar">>, <<"PACKAGE", "Foo+">>,
   <<"PACKAGE", "Foo", "extra">>, <<"PACKAGE", "", "extra">>}

RegistryValues == {Undef, "ON", "OFF"}

InitPackage ==
  /\ ErrorOccurredFlag = FALSE
  /\ definitions = [n \in VariableNames |-> Undef]
  /\ ctestConfiguration = [k \in {"BuildDirectory", "MakeCommand"} |-> ""]
  /\ ConfigType = ""
  /\ commandLineConfigType = ""
  /\ cwd = "/w"
  /\ pc = "idle"
  /\ call = NoCall
  /\ ExportSets = <<>>
  /\ BuildExportSets = <<>>
  /\ ExportBuildFileGenerators = <<>>
  /\ ExperimentalFeatures = {}
  /\ exportCall = NoExportCall
  /\ PolicyStatus \in {[p \in Policies |-> IF p = "CMP0090" THEN s ELSE "NEW"] :
                         s \in PolicyStatuses}
  /\ PackageRegistry = EmptyRegistry
  /\ Platform \in Platforms
  /\ UserDirectory \in UserDirectories(Platform)
  /\ RegistryFault = "none"

NextPackage ==
  \/ \E args \in PackageCommands : cmExportCommand(args)
  \/ ExecuteExportCommand
  \/ \E name \in ExportVariables, value \in RegistryValues :
       SetDefinition(name, value)
  \/ \E fault \in RegistryFaults(Platform) : RegistryBackendChanges(fault)

SpecPackage == InitPackage /\ [][NextPackage]_vars

\* The policy specification: one file bound again and again and one package
\* registered, under every setting of CMP0090 and CMP0103, on a system whose
\* registry refuses nothing.

PolicyCommands == {<<"TARGETS", "lib", "FILE", "out.cmake">>, <<"PACKAGE", "Foo">>}

InitPolicies ==
  /\ ExportIdle
  /\ PolicyStatus \in [Policies -> PolicyStatuses]

NextPolicies ==
  \/ \E args \in PolicyCommands : cmExportCommand(args)
  \/ ExecuteExportCommand
  \/ \E name \in ExportVariables, value \in {Undef, "ON"} :
       SetDefinition(name, value)

SpecPolicies == InitPolicies /\ [][NextPolicies]_vars

\* The package-dependency specification: SETUP commands on one export set
\* with PACKAGE_DEPENDENCY groups, in a project with or without the
\* experimental feature that binds the keyword.

EnabledSettings ==
  {<<>>, <<"ENABLED", "AUTO">>, <<"ENABLED", "ON">>, <<"ENABLED", "OFF">>,
   <<"ENABLED", "bogus">>}

ExtraArgsSettings ==
  {<<>>, <<"EXTRA_ARGS", "a">>, <<"EXTRA_ARGS", "a", "a">>,
   <<"EXTRA_ARGS", "b">>}

\* The groups given for the package P, and the groups that follow one of
\* them in a command of two.
FirstGroups ==
  {<<"PACKAGE_DEPENDENCY", "P">> \o e \o a :
     e \in EnabledSettings, a \in ExtraArgsSettings}
    \cup {<<"PACKAGE_DEPENDENCY", "P", "EXTRA_ARGS", "b", "ENABLED", "OFF">>}

SecondGroups ==
  {<<>>,
   <<"PACKAGE_DEPENDENCY", "P", "EXTRA_ARGS", "b">>,
   <<"PACKAGE_DEPENDENCY", "Q", "EXTRA_ARGS", "a">>,
   <<"PACKAGE_DEPENDENCY", "P", "ENABLED", "bogus", "EXTRA_ARGS", "b">>}

DependencyCommands ==
  {<<"SETUP", "s1">>}
    \cup {<<"SETUP", "s1">> \o g \o h : g \in FirstGroups, h \in SecondGroups}

InitSetup ==
  /\ ErrorOccurredFlag = FALSE
  /\ definitions = [n \in VariableNames |-> Undef]
  /\ ctestConfiguration = [k \in {"BuildDirectory", "MakeCommand"} |-> ""]
  /\ ConfigType = ""
  /\ commandLineConfigType = ""
  /\ cwd = "/w"
  /\ pc = "idle"
  /\ call = NoCall
  /\ ExportSets = <<>>
  /\ BuildExportSets = <<>>
  /\ ExportBuildFileGenerators = <<>>
  /\ PolicyStatus = [p \in Policies |-> "NEW"]
  /\ ExperimentalFeatures \in {{}, {"ExportPackageDependencies"}}
  /\ exportCall = NoExportCall
  /\ NoRegistry

NextSetup ==
  \/ \E args \in DependencyCommands : cmExportCommand(args)
  \/ ExecuteExportCommand

SpecSetup == InitSetup /\ [][NextSetup]_vars

-----------------------------------------------------------------------------
(* The error-capture contract *)

\* InitialPass has returned and its caller has not yet acted.
Returned == pc = "returned"

\* The call asked for CAPTURE_CMAKE_ERROR.
Capturing == call.args.CaptureCMakeError # ""

\* The value of the capture variable.
CaptureValue == definitions[call.args.CaptureCMakeError]

\* The ways a sub-operation fails, and the ways the error flag is raised.
FailureEvents ==
  {"UnknownArgument", "CannotInstantiateHandler", "WorkdirFailed",
   "ErrorInHandler"}

RaisingEvents == {"DuplicateKeyword", "CouldNotCreateGenerator", "ErrorInHandler"}

\* C1: with a capture variable V, a call in which a sub-operation fails or an
\* error is raised ends with V = "-1", the error flag as it was on entry, and
\* InitialPass returning true.
C1_CapturedFailure ==
  (Returned /\ Capturing
     /\ call.events \cap (FailureEvents \cup RaisingEvents) # {})
    => /\ CaptureValue = "-1"
       /\ ErrorOccurredFlag = call.entryFlag
       /\ call.ret

\* An error raised by the running handler, captured, with the flag clear on
\* entry and clear again on return.
C1_Witness ==
  /\ Returned /\ Capturing
  /\ "ErrorInHandler" \in call.events
  /\ ~call.entryFlag /\ ~ErrorOccurredFlag
  /\ CaptureValue = "-1"

C3_CapturedSuccess ==
  (Returned /\ Capturing
     /\ "ProcessHandler" \in call.events
     /\ call.events \cap RaisingEvents = {})
    => CaptureValue = "0"

\* A clean captured run entered with the flag set.
C3_Witness ==
  /\ Returned /\ Capturing
  /\ "ProcessHandler" \in call.events
  /\ call.events \cap RaisingEvents = {}
  /\ call.entryFlag
  /\ CaptureValue = "0"

\* C4: without a capture variable, a call in which nothing failed and no
\* error was raised returns with the flag equal to its value on entry, and
\* returns true, so its caller leaves the flag alone.
C4_FlagKept ==
  (Returned /\ ~Capturing
     /\ call.events \cap (FailureEvents \cup RaisingEvents) = {})
    => /\ ErrorOccurredFlag = call.entryFlag
       /\ call.ret

\* A clean run without capture entered with the flag set: the flag, reset on
\* entry, is set again.
C4_Witness ==
  /\ Returned /\ ~Capturing
  /\ "ProcessHandler" \in call.events
  /\ call.events \cap (FailureEvents \cup RaisingEvents) = {}
  /\ call.entryFlag /\ ErrorOccurredFlag


-----------------------------------------------------------------------------
(* What stops a command *)

\* C5: a keyword supplied more than once halts the command: after the
\* duplicate is detected the handler is neither initialised nor executed, and
\* the command does not end as a successful run does (true, with the flag
\* clear or "0" captured).
C5_DuplicateHalts ==
  (Returned /\ "DuplicateKeyword" \in call.events)
    => /\ "InitializeHandler" \notin call.events
       /\ "ProcessHandler" \notin call.events
       /\ ~(call.ret /\ IF Capturing THEN CaptureValue = "0"
                                     ELSE ~ErrorOccurredFlag)

\* C6: the handler is executed only when parsing left no unknown argument,
\* InitializeHandler returned a handler and the build directory could be
\* entered; without capture each of these three failures returns false and
\* writes no output variable.
C6_ExecutionGuarded ==
  Returned =>
    /\ "ProcessHandler" \in call.events
         => /\ Parse(call.arguments).unparsedArguments = <<>>
            /\ call.handler
            /\ ctestConfiguration["BuildDirectory"] \in ExistingDirectories
    /\ (/\ ~Capturing
        /\ \/ Parse(call.arguments).unparsedArguments # <<>>
           \/ ("InitializeHandler" \in call.events /\ ~call.handler)
           \/ (call.handler
                 /\ ctestConfiguration["BuildDirectory"] \notin ExistingDirectories))
         => /\ ~call.ret
            /\ call.written = {}
            /\ "ProcessHandler" \notin call.events

\* A failed directory change without capture in a call that names a
\* RETURN_VALUE variable.
C6_Witness ==
  /\ Returned /\ ~Capturing
  /\ call.handler
  /\ ctestConfiguration["BuildDirectory"] \notin ExistingDirectories
  /\ call.args.ReturnValue # ""
  /\ ~call.ret /\ call.written = {}

\* C7: with neither a BUILD argument nor CTEST_BINARY_DIRECTORY the command
\* stops: no handler is initialised or executed, and the command returns
\* false, or records "-1" under capture.
C7_NoBuildDirectoryHalts ==
  (/\ Returned
   /\ Parse(call.arguments).unparsedArguments = <<>>
   /\ call.args.Build = ""
   /\ ~cmNonempty(definitions["CTEST_BINARY_DIRECTORY"]))
    => /\ "InitializeHandler" \notin call.events
       /\ "ProcessHandler" \notin call.events
       /\ IF Capturing THEN CaptureValue = "-1" ELSE ~call.ret


-----------------------------------------------------------------------------
(* The build command *)

\* The call got as far as InitializeHandler with neither a build command nor
\* a generator name.
NoProject ==
  /\ "InitializeHandler" \in call.events
  /\ ~cmNonempty(definitions["CTEST_BUILD_COMMAND"])
  /\ ~cmNonempty(definitions["CTEST_CMAKE_GENERATOR"])

\* The call got as far as InitializeHandler with no build command and the
\* name of a generator that cannot be created.
GeneratorMissing ==
  /\ "InitializeHandler" \in call.events
  /\ ~cmNonempty(definitions["CTEST_BUILD_COMMAND"])
  /\ cmNonempty(definitions["CTEST_CMAKE_GENERATOR"])
  /\ ~CreateGlobalGenerator(definitions["CTEST_CMAKE_GENERATOR"])

\* C8: a build command with neither a non-empty CTEST_CMAKE_GENERATOR nor a
\* non-empty CTEST_BUILD_COMMAND sets the "has no project to build" error,
\* yields no handler and no MakeCommand, and returns false without capture,
\* or sets the capture variable to "-1" and returns true with capture.
C8_NoProjectFails ==
  (Returned /\ NoProject)
    => /\ call.error = "has no project to build"
       /\ ~call.handler
       /\ "ProcessHandler" \notin call.events
       /\ "MakeCommand" \notin call.configured
       /\ IF Capturing
          THEN CaptureValue = "-1" /\ call.ret
          ELSE ~call.ret

\* The build command is defined but empty, the generator is undefined, the
\* call captures.
C8_Witness ==
  /\ Returned /\ NoProject /\ Capturing
  /\ definitions["CTEST_BUILD_COMMAND"] = ""
  /\ CaptureValue = "-1" /\ call.ret

\* C9: when the generator named by CTEST_CMAKE_GENERATOR cannot be created a
\* fatal error is raised, no MakeCommand is set, no handler is returned or
\* executed, and under capture the capture variable is "-1" with the error
\* flag as it was on entry.
C9_GeneratorMissingFails ==
  (Returned /\ GeneratorMissing)
    => /\ "CouldNotCreateGenerator" \in call.events
       /\ "MakeCommand" \notin call.configured
       /\ call.generatorCalls = <<>>
       /\ ~call.handler
       /\ "ProcessHandler" \notin call.events
       /\ IF Capturing
          THEN /\ CaptureValue = "-1"
               /\ ErrorOccurredFlag = call.entryFlag
               /\ call.ret
          ELSE ErrorOccurredFlag /\ ~call.ret

\* A generator that cannot be created, under capture, entered with the flag
\* clear: the fatal error is raised and the flag is clear again on return.
C9_Witness ==
  /\ Returned /\ GeneratorMissing /\ Capturing
  /\ ~call.entryFlag /\ ~ErrorOccurredFlag
  /\ CaptureValue = "-1"


\* The first non-empty of the CONFIGURATION argument, CTEST_BUILD_CONFIGURATION
\* and the given config type, else "Release".
ChosenConfiguration(configType) ==
  IF call.args.Configuration # ""
  THEN call.args.Configuration
  ELSE IF definitions["CTEST_BUILD_CONFIGURATION"] \notin {Undef, ""}
       THEN definitions["CTEST_BUILD_CONFIGURATION"]
       ELSE IF configType # "" THEN configType ELSE "Release"

\* The explicit argument if non-empty, else the script variable, else empty.
ChosenOr(argument, variable) ==
  IF argument # "" THEN argument
  ELSE IF definitions[variable] = Undef THEN "" ELSE definitions[variable]

\* What the generator was asked for in this call.
GeneratorCall == call.generatorCalls[1]

-----------------------------------------------------------------------------
(* The working directory *)

\* C11: the handler runs with the process in the build directory of the CTest
\* configuration, and whenever a handler command returns (success, failure,
\* or captured failure) the process working directory is what it was on
\* entry.
C11_WorkingDirectoryReleased ==
  Returned =>
    /\ cwd = call.entryCwd
    /\ "ProcessHandler" \in call.events
         => call.handlerCwd = ctestConfiguration["BuildDirectory"]

\* A handler that raised an error ran in /b1, under capture, and the command
\* returned in the directory it was entered in.
C11_Witness ==
  /\ Returned /\ Capturing
  /\ "ErrorInHandler" \in call.events
  /\ call.handlerCwd = "/b1"
  /\ call.entryCwd = "/w" /\ cwd = "/w"

-----------------------------------------------------------------------------
(* Export files and their generators *)

\* cmExportCommand has returned and its caller has not yet acted.
ExportReturned == pc = "returned" /\ exportCall.args # <<>>

\* The generators of a file, by their position in the makefile.
GeneratorsOf(file) ==
  {i \in 1..Len(ExportBuildFileGenerators) :
     ExportBuildFileGenerators[i].ExportFile = file}

\* The generators of a file on entry to the last command.
EntryGeneratorsOf(file) ==
  {i \in 1..Len(exportCall.entry.Generators) :
     exportCall.entry.Generators[i].ExportFile = file}

\* C12, as claimed: each output file has at most one generator, unless the
\* later one was bound in append mode.
C12_OneGeneratorPerFile ==
  \A i, j \in 1..Len(ExportBuildFileGenerators) :
    (i < j /\ ExportBuildFileGenerators[i].ExportFile
                = ExportBuildFileGenerators[j].ExportFile)
      => ExportBuildFileGenerators[j].AppendMode

\* C12, amended: each output file has at most one generator, unless the later
\* one was bound in append mode or CMP0103 resolves to OLD or WARN.
C12_OneGeneratorPerFileUnlessOld ==
  \A i, j \in 1..Len(ExportBuildFileGenerators) :
    (i < j /\ ExportBuildFileGenerators[i].ExportFile
                = ExportBuildFileGenerators[j].ExportFile)
      => \/ ExportBuildFileGenerators[j].AppendMode
         \/ PolicyStatus["CMP0103"] \in {"OLD", "WARN"}

\* Under NEW a command named a file that had a generator, without APPEND, and
\* the file still has that one generator.
C12_Witness ==
  /\ ExportReturned
  /\ PolicyStatus["CMP0103"] = "NEW"
  /\ exportCall.fname = "/bin/out.cmake"
  /\ "APPEND" \notin {exportCall.args[i] : i \in 1..Len(exportCall.args)}
  /\ EntryGeneratorsOf("/bin/out.cmake") # {}
  /\ Cardinality(GeneratorsOf("/bin/out.cmake")) = 1

\* The form and the parsed arguments of the last command.
CallForm == exportCall.args[1]

CallArguments == ParseWith(ExportBindings(CallForm), Arguments, exportCall.args).args

\* The last command got as far as binding its file: the file is named, the
\* export set exists or every listed target can be exported.
ReachedBinding ==
  /\ ExportReturned
  /\ exportCall.fname # ""
  /\ CanIWriteThisFile(exportCall.fname)
  /\ IF CallForm = "EXPORT"
     THEN CallArguments.ExportSetName \in DOMAIN exportCall.entry.ExportSets
     ELSE /\ "TARGETS" \in {exportCall.args[i] : i \in 1..Len(exportCall.args)}
          /\ \A i \in 1..Len(CallArguments.Targets) :
               TargetError(CallArguments.Targets[i]) = ""

\* The last command bound, without APPEND, a file that had a generator.
SecondBinding ==
  /\ ReachedBinding
  /\ ~CallArguments.Append
  /\ EntryGeneratorsOf(exportCall.fname) # {}

\* The command left the generators, the files' bindings and the export sets
\* as they were on entry.
ExportStateKept ==
  /\ ExportBuildFileGenerators = exportCall.entry.Generators
  /\ BuildExportSets = exportCall.entry.BuildExportSets
  /\ ExportSets = exportCall.entry.ExportSets

\* C13: when CMP0103 resolves to NEW, binding without APPEND a file that
\* already has a generator fails with the "command already specified for the
\* file ... Did you miss 'APPEND' keyword?" error, adds no generator and
\* leaves the existing binding and its target list unchanged.
C13_SecondBindingFails ==
  (SecondBinding /\ PolicyStatus["CMP0103"] = "NEW")
    => /\ ~exportCall.ret
       /\ exportCall.error =
            "command already specified for the file\n  "
              \o CallArguments.Filename \o "\nDid you miss 'APPEND' keyword?"
       /\ ExportStateKept

\* The one bound file is named again by its full path; the command fails and
\* the generator of the file keeps its one target.
C13_Witness ==
  /\ SecondBinding /\ PolicyStatus["CMP0103"] = "NEW"
  /\ CallArguments.Filename = "/bin/out.cmake"
  /\ ~exportCall.ret
  /\ Len(ExportBuildFileGenerators) = 1
  /\ Len(ExportBuildFileGenerators[1].Targets) = 1

\* The last command added one generator, which is now the generator of its
\* file.
GeneratorAdded ==
  /\ Len(ExportBuildFileGenerators) = Len(exportCall.entry.Generators) + 1
  /\ BuildExportSets[exportCall.fname] = Len(ExportBuildFileGenerators)
  /\ ExportBuildFileGenerators[Len(ExportBuildFileGenerators)].ExportFile
       = exportCall.fname

\* C14, as claimed: when CMP0103 resolves to OLD, a second non-append binding
\* of a file emits a warning and succeeds.
C14_OldWarns ==
  (SecondBinding /\ PolicyStatus["CMP0103"] = "OLD")
    => /\ exportCall.ret
       /\ exportCall.messages # {}

\* C14, amended: when CMP0103 resolves to OLD, a second non-append binding of
\* a file succeeds with no message at all; when it resolves to WARN the
\* command succeeds and emits the warning.
C14_OldSilentWarnWarns ==
  /\ (SecondBinding /\ PolicyStatus["CMP0103"] = "OLD")
       => /\ exportCall.ret
          /\ exportCall.messages = {}
          /\ GeneratorAdded
  /\ (SecondBinding /\ PolicyStatus["CMP0103"] = "WARN")
       => /\ exportCall.ret
          /\ \E msg \in exportCall.messages : msg.type = "AUTHOR_WARNING"
          /\ GeneratorAdded

\* Under OLD the bound file is bound again: the command succeeds silently and
\* the file has two generators.
C14_Witness ==
  /\ SecondBinding /\ PolicyStatus["CMP0103"] = "OLD"
  /\ exportCall.ret /\ exportCall.messages = {}
  /\ Cardinality(GeneratorsOf(exportCall.fname)) = 2

-----------------------------------------------------------------------------
(* The TARGETS form *)

\* What a listed name is in the project: an alias, a custom (utility)
\* target, a target that can be exported, or nothing.
KindOfName(name) ==
  IF name \in DOMAIN AliasTargets THEN "alias"
  ELSE IF name \notin DOMAIN ProjectTargets THEN "unknown"
  ELSE IF ProjectTargets[name] = "UTILITY" THEN "custom"
  ELSE "exportable"

\* The error each kind of offending name is to give.
ErrorOfName(name) ==
  CASE KindOfName(name) = "alias" ->
         "given ALIAS target \"" \o name \o "\" which may not be exported."
    [] KindOfName(name) = "custom" ->
         "given custom target \"" \o name \o "\" which may not be exported."
    [] KindOfName(name) = "unknown" ->
         "given target \"" \o name \o "\" which is not built by this project."

\* The names the last command listed after TARGETS, and the positions of the
\* offending ones.
ListedTargets == CallArguments.Targets

Offending ==
  {i \in 1..Len(ListedTargets) : KindOfName(ListedTargets[i]) # "exportable"}

\* The last command was of the TARGETS form and its file name was accepted.
TargetsCall ==
  /\ ExportReturned
  /\ CallForm \notin {"EXPORT", "SETUP"}
  /\ "TARGETS" \in {exportCall.args[i] : i \in 1..Len(exportCall.args)}
  /\ exportCall.fname # ""
  /\ CanIWriteThisFile(exportCall.fname)

\* C15: a TARGETS call listing an alias, a custom target or a name that is no
\* target fails; an alias is reported as an alias whatever it stands for, the
\* first offending name of the list gives the error, and the failing call
\* binds no generator and appends no targets.
C15_OffendingTargetFails ==
  (TargetsCall /\ Offending # {})
    => /\ ~exportCall.ret
       /\ \E i \in Offending :
            /\ \A j \in Offending : i <= j
            /\ exportCall.error = ErrorOfName(ListedTargets[i])
       /\ ExportStateKept

\* An exportable name and then the alias of a custom target, appended to a
\* file that has a generator: the alias error, and nothing appended.
C15_Witness ==
  /\ TargetsCall
  /\ ListedTargets = <<"app", "alias">>
  /\ CallArguments.Append
  /\ EntryGeneratorsOf(exportCall.fname) # {}
  /\ exportCall.error = "given ALIAS target \"alias\" which may not be exported."
  /\ ~exportCall.ret

\* The names of a list of target exports, in order.
NamesOf(targets) == [i \in 1..Len(targets) |-> targets[i].TargetName]

\* No name is listed twice.
NoRepeat(names) ==
  \A i, j \in 1..Len(names) : names[i] = names[j] => i = j

\* t1 in order followed by the names of t2 that are not yet listed, in order.
RECURSIVE UnionInOrder(_, _)
UnionInOrder(t1, t2) ==
  IF t2 = <<>> THEN t1
  ELSE IF \E i \in 1..Len(t1) : t1[i] = Head(t2)
  THEN UnionInOrder(t1, Tail(t2))
  ELSE UnionInOrder(Append(t1, Head(t2)), Tail(t2))

\* The generator the file of the last command had on entry.
EntryGenerator == exportCall.entry.BuildExportSets[exportCall.fname]

Merged ==
  /\ exportCall.ret
  /\ Len(ExportBuildFileGenerators) = Len(exportCall.entry.Generators)
  /\ BuildExportSets = exportCall.entry.BuildExportSets
  /\ \A i \in 1..Len(ListedTargets) :
       \E k \in 1..Len(ExportBuildFileGenerators[EntryGenerator].Targets) :
         ExportBuildFileGenerators[EntryGenerator].Targets[k].TargetName
           = ListedTargets[i]

\* A TARGETS call with exportable targets on a file that has a generator.
TargetsOnBoundFile ==
  /\ TargetsCall
  /\ Offending = {}
  /\ EntryGeneratorsOf(exportCall.fname) # {}

\* C17, as claimed: a TARGETS call on a file that has a generator merges its
\* targets into that generator when the generator was declared in append
\* mode or the call itself requests APPEND.
C17_MergeIfEitherAppends ==
  (/\ TargetsOnBoundFile
   /\ \/ CallArguments.Append
      \/ exportCall.entry.Generators[EntryGenerator].AppendMode)
    => Merged

\* C17, amended: a TARGETS call on a file that has a generator merges its
\* targets into that generator exactly when the call itself requests APPEND;
\* without APPEND it is a second binding whether or not the generator was
\* declared in append mode: rejected with everything kept under NEW, a
\* further generator under OLD and WARN, and the first generator unchanged.
C17_MergeIffCallAppends ==
  TargetsOnBoundFile =>
    IF CallArguments.Append
    THEN Merged
    ELSE /\ ExportBuildFileGenerators[EntryGenerator]
              = exportCall.entry.Generators[EntryGenerator]
         /\ IF PolicyStatus["CMP0103"] = "NEW"
            THEN ~exportCall.ret /\ ExportStateKept
            ELSE exportCall.ret /\ GeneratorAdded

\* The file was declared with APPEND; a later call without APPEND is rejected
\* under NEW.
C17_Witness ==
  /\ TargetsOnBoundFile
  /\ ~CallArguments.Append
  /\ exportCall.entry.Generators[EntryGenerator].AppendMode
  /\ PolicyStatus["CMP0103"] = "NEW"
  /\ ~exportCall.ret

-----------------------------------------------------------------------------
(* Export sets *)

\* The names of the members an export set had on entry to the last command;
\* a set that did not exist had none.
EntryMembers(set) ==
  IF set \in DOMAIN exportCall.entry.ExportSets
  THEN {exportCall.entry.ExportSets[set].TargetExports[i].TargetName :
          i \in 1..Len(exportCall.entry.ExportSets[set].TargetExports)}
  ELSE {}

\* The TARGET groups of the last command that are well formed (a name, then
\* at most XCFRAMEWORK_LOCATION and its value) and name no member of the set.
UnknownTargetGroups ==
  {i \in 1..Len(CallArguments.TargetArgs) :
     /\ CallArguments.TargetArgs[i] # <<>>
     /\ \/ Len(CallArguments.TargetArgs[i]) = 1
        \/ /\ Len(CallArguments.TargetArgs[i]) = 3
           /\ CallArguments.TargetArgs[i][2] = "XCFRAMEWORK_LOCATION"
     /\ CallArguments.TargetArgs[i][1]
          \notin EntryMembers(CallArguments.ExportSetName)}

\* C18: SETUP name TARGET t XCFRAMEWORK_LOCATION loc with t not a member of
\* the export set fails with an unknown-target error and records no location
\* for t.
C18_UnknownTargetFails ==
  (/\ ExportReturned
   /\ CallForm = "SETUP"
   /\ UnknownTargetGroups # {})
    => /\ ~exportCall.ret
       /\ \A i \in UnknownTargetGroups :
            \A k \in 1..Len(ExportSets[CallArguments.ExportSetName].TargetExports) :
              ExportSets[CallArguments.ExportSetName].TargetExports[k].TargetName
                # CallArguments.TargetArgs[i][1]

\* The last command was of the EXPORT form, with no unknown argument, and
\* named a set that did not exist.
ExportOfMissingSet ==
  /\ ExportReturned
  /\ CallForm = "EXPORT"
  /\ ParseWith(ExportBindings(CallForm), Arguments, exportCall.args).unknownArgs
       = <<>>
  /\ CallArguments.ExportSetName \notin DOMAIN exportCall.entry.ExportSets

\* C19: the EXPORT form naming an export set that does not exist fails, with
\* the "Export set ... not found." error once its file name is accepted,
\* binds no generator and does not create the set; an export command that
\* creates a set is a SETUP.
C19_MissingSetFails ==
  /\ ExportOfMissingSet
       => /\ ~exportCall.ret
          /\ ExportStateKept
          /\ (exportCall.fname # "" /\ CanIWriteThisFile(exportCall.fname))
               => exportCall.error =
                    "Export set \"" \o CallArguments.ExportSetName
                      \o "\" not found."
  /\ (ExportReturned /\ DOMAIN ExportSets # DOMAIN exportCall.entry.ExportSets)
       => /\ CallForm = "SETUP"
          /\ DOMAIN ExportSets =
               DOMAIN exportCall.entry.ExportSets \cup {CallArguments.ExportSetName}

\* EXPORT of a set that does not exist, while another set does and a file is
\* bound: the error, and the sets and generators as before.
C19_Witness ==
  /\ ExportOfMissingSet
  /\ exportCall.error = "Export set \"nosuch\" not found."
  /\ DOMAIN ExportSets = {"s1"}
  /\ Len(ExportBuildFileGenerators) = 1

-----------------------------------------------------------------------------
(* The file of an export *)

\* The last command was of the EXPORT or the TARGETS form, with enough
\* arguments and no unknown one: it went on to choose its file.
ChoseFile ==
  /\ ExportReturned
  /\ Len(exportCall.args) >= 2
  /\ CallForm # "SETUP"
  /\ ParseWith(ExportBindings(CallForm), Arguments, exportCall.args).unknownArgs
       = <<>>

\* The FILE name of the last command has an extension other than ".cmake".
OtherExtension ==
  /\ CallArguments.Filename # ""
  /\ GetFilenameLastExtension(CallArguments.Filename) # ".cmake"

\* The name the file of the last command is taken from: ANDROID_MK, else
\* FILE, else the name of the export set with ".cmake".
ChosenName ==
  IF CallArguments.AndroidMKFile # "" THEN CallArguments.AndroidMKFile
  ELSE IF CallArguments.Filename # "" THEN CallArguments.Filename
  ELSE CallArguments.ExportSetName \o ".cmake"

\* A full path the project may not write fails and binds nothing; a command
\* that succeeds has its file at the full path given, or at the relative name
\* given under the current build directory.
FullAndRelativeNames ==
  /\ (ChoseFile /\ FileIsFullPath(ChosenName) /\ ~CanIWriteThisFile(ChosenName))
       => ~exportCall.ret /\ ExportStateKept
  /\ (ChoseFile /\ exportCall.ret)
       => /\ exportCall.fname =
               IF FileIsFullPath(ChosenName) THEN ChosenName
               ELSE GetCurrentBinaryDirectory \o "/" \o ChosenName
          /\ exportCall.fname \in DOMAIN BuildExportSets

\* C20: no generator is bound to a path in the source tree; a
\* FILE name with an extension other than ".cmake" fails; a full path the
\* project may not write fails; a relative name is bound under the current
\* build directory; each failure binds nothing.
C20_FileAsClaimed ==
  /\ \A i \in 1..Len(ExportBuildFileGenerators) :
       ~InSourceTree(ExportBuildFileGenerators[i].ExportFile)
  /\ (ChoseFile /\ OtherExtension) => ~exportCall.ret /\ ExportStateKept
  /\ FullAndRelativeNames

-----------------------------------------------------------------------------
(* The PACKAGE form *)

\* The last command was export(PACKAGE ...) with at least the name.
PackageCall ==
  /\ ExportReturned
  /\ Len(exportCall.args) >= 2
  /\ exportCall.args[1] = "PACKAGE"

\* The name given to the last PACKAGE command.
PackageName == exportCall.args[2]

\* The names among those the commands give that are made of letters, digits,
\* "_", "." and "-" only, and of at least one of them.
WellFormedNames == {"Foo", "b-1.x_y"}

\* The last PACKAGE command gave a well-formed name and nothing after it.
ValidPackageCall ==
  /\ PackageCall
  /\ Len(exportCall.args) = 2
  /\ PackageName \in WellFormedNames

\* The registry is as it was when the last command started, and Store was
\* not invoked.
RegistryKept ==
  /\ PackageRegistry = exportCall.entry.Registry
  /\ "StorePackageRegistry" \notin exportCall.events

\* C21: export(PACKAGE "") fails with "PACKAGE must be given a package
\* name."; a name that does not match ^[A-Za-z0-9_.-]+$ fails; any argument
\* after the name fails; and a failing PACKAGE command writes nothing to the
\* package registry, whatever CMP0090 and the registry variables are.
C21_BadPackageFails ==
  PackageCall =>
    /\ (Len(exportCall.args) = 2 /\ PackageName = "")
         => /\ ~exportCall.ret
            /\ exportCall.error = "PACKAGE must be given a package name."
    /\ PackageName \notin WellFormedNames => ~exportCall.ret
    /\ Len(exportCall.args) > 2 => ~exportCall.ret
    /\ ~exportCall.ret => RegistryKept

\* A name with a space in it fails in a project that exports to the registry
\* by default, after an earlier command has stored an entry.
C21_Witness ==
  /\ PackageCall
  /\ PackageName = "Foo Bar"
  /\ ~exportCall.ret
  /\ PolicyStatus["CMP0090"] = "OLD"
  /\ ~IsOn("CMAKE_EXPORT_NO_PACKAGE_REGISTRY")
  /\ RegistryFault = "none"
  /\ UserDirectory # Undef
  /\ DOMAIN PackageRegistry.entries # {}

\* The project has switched the variable on.
SwitchedOn(name) == definitions[name] = "ON"

\* Store was invoked by the last command.
StoreInvoked == "StorePackageRegistry" \in exportCall.events

\* C22: a PACKAGE command with a valid name succeeds, and it invokes Store
\* exactly when CMP0090 is OLD or WARN and CMAKE_EXPORT_NO_PACKAGE_REGISTRY
\* is not on, or CMP0090 is NEW and CMAKE_EXPORT_PACKAGE_REGISTRY is on; the
\* variable of the other policy state has no part in it.
C22_StoreGatedByPolicy ==
  ValidPackageCall =>
    /\ exportCall.ret
    /\ StoreInvoked <=>
         \/ /\ PolicyStatus["CMP0090"] \in {"OLD", "WARN"}
            /\ ~SwitchedOn("CMAKE_EXPORT_NO_PACKAGE_REGISTRY")
         \/ /\ PolicyStatus["CMP0090"] = "NEW"
            /\ SwitchedOn("CMAKE_EXPORT_PACKAGE_REGISTRY")

\* Under NEW with both variables on, Store is invoked: the variable that
\* disables the export under OLD does nothing here.
C22_Witness ==
  /\ ValidPackageCall
  /\ PolicyStatus["CMP0090"] = "NEW"
  /\ SwitchedOn("CMAKE_EXPORT_PACKAGE_REGISTRY")
  /\ SwitchedOn("CMAKE_EXPORT_NO_PACKAGE_REGISTRY")
  /\ StoreInvoked
  /\ exportCall.ret

-----------------------------------------------------------------------------
(* The user package registry *)

\* The digest of the build directory, the content every entry holds.
DigestOfContent == "1e80cb7e0fbfc9f5c0509a465ecdf6cf"

\* Where the entry of a package is kept on this system.
EntryLocation(package) ==
  CASE Platform = "Windows" ->
         "Software\\Kitware\\CMake\\Packages\\" \o package \o "\\"
           \o DigestOfContent
    [] Platform = "Haiku" ->
         "/boot/home/config/settings/cmake/packages/" \o package \o "/"
           \o DigestOfContent
    [] OTHER -> "/home/u/.cmake/packages/" \o package \o "/" \o DigestOfContent

\* The last command invoked Store for a package whose entry was in the
\* registry when the command started.
SecondStore ==
  /\ ValidPackageCall
  /\ StoreInvoked
  /\ EntryLocation(PackageName) \in DOMAIN exportCall.entry.Registry.entries

\* The entries of the registry are the entries the last command started
\* with, the one of its package among them.
EntriesKept ==
  /\ PackageRegistry.entries = exportCall.entry.Registry.entries
  /\ Cardinality({l \in DOMAIN PackageRegistry.entries :
                    l = EntryLocation(PackageName)}) = 1

\* C23, as claimed: a second Store of the same package content writes
\* nothing and leaves exactly the one entry, with its content.
C23_SecondStoreWritesNothing ==
  SecondStore => EntriesKept /\ "write" \notin exportCall.events

\* C23, amended: a second Store of the same package content leaves exactly
\* the one entry, with its content; the per-user directory backend writes
\* nothing, the Windows registry backend sets the value again unless the
\* registry refuses.
C23_SecondStoreKeepsEntry ==
  SecondStore =>
    /\ EntriesKept
    /\ Platform # "Windows" => "write" \notin exportCall.events
    /\ Platform = "Windows" =>
         ("write" \in exportCall.events <=> RegistryFault = "none")

\* A package registered a second time under HOME, with nothing refused.
C23_Witness ==
  /\ SecondStore
  /\ Platform = "Unix"
  /\ RegistryFault = "none"
  /\ exportCall.ret

\* The last command issued a warning.
Warned == \E m \in exportCall.messages : m.type = "WARNING"

\* The last command raised no error: it returned true, set no error text and
\* left the error flag down.
NotFatal ==
  /\ exportCall.ret
  /\ exportCall.error = ""
  /\ ~ErrorOccurredFlag

\* The last command invoked Store and the entry of its package is not in the
\* registry.
BackendFailed ==
  /\ ValidPackageCall
  /\ StoreInvoked
  /\ EntryLocation(PackageName) \notin DOMAIN PackageRegistry.entries

\* C24, as claimed: a PACKAGE command with a valid name is never fatal, and
\* every Store that leaves no entry behind produces a warning.
C24_EveryFailureWarns ==
  /\ ValidPackageCall => NotFatal
  /\ BackendFailed => Warned

\* C24, amended: a PACKAGE command with a valid name is never fatal; a Store
\* that the backend refuses when the entry is opened, or when the key is
\* created or the value set, produces a warning; a Store without the
\* directory of the user writes nothing and warns of nothing; and there is
\* no warning when nothing is refused.
C24_DetectedFailureWarns ==
  /\ ValidPackageCall => NotFatal
  /\ (BackendFailed /\ RegistryFault \in {"open", "RegCreateKeyExW",
                                          "RegSetValueExW"}
        /\ (Platform = "Windows" \/ UserDirectory # Undef))
       => Warned
  /\ (ValidPackageCall /\ StoreInvoked /\ Platform # "Windows"
        /\ UserDirectory = Undef)
       => ~Warned /\ PackageRegistry = exportCall.entry.Registry
  /\ (ValidPackageCall /\ Warned) => StoreInvoked /\ RegistryFault # "none"

\* The entry of a package cannot be opened for writing: the command warns and
\* succeeds, and there is no entry.
C24_Witness ==
  /\ BackendFailed
  /\ RegistryFault = "open"
  /\ UserDirectory # Undef
  /\ Warned
  /\ NotFatal

-----------------------------------------------------------------------------
(* The policies *)

\* The last command issued a message that names the policy.
PolicyWarning(policy) ==
  \E m \in exportCall.messages :
    /\ m.type = "AUTHOR_WARNING"
    /\ m.text \in {policy \o "\nexport() command already specified for the file\n  "
                     \o f \o "\nDid you miss 'APPEND' keyword?" :
                   f \in {"out.cmake"}}

\* What OLD does at a second binding of a file, and at the registration of a
\* package: the file gets a further generator; the package is stored unless
\* CMAKE_EXPORT_NO_PACKAGE_REGISTRY is on.
OldSecondBinding == exportCall.ret /\ GeneratorAdded

OldPackageExport ==
  /\ exportCall.ret
  /\ StoreInvoked <=> ~SwitchedOn("CMAKE_EXPORT_NO_PACKAGE_REGISTRY")
  /\ ~StoreInvoked => PackageRegistry = exportCall.entry.Registry

\* C25, as claimed: at the second binding of a file and at the registration
\* of a package, WARN does what OLD does and emits a warning, and OLD emits
\* none.
C25_WarnIsOldWithWarning ==
  /\ (SecondBinding /\ PolicyStatus["CMP0103"] \in {"OLD", "WARN"})
       => /\ OldSecondBinding
          /\ exportCall.messages # {} <=> PolicyStatus["CMP0103"] = "WARN"
  /\ (ValidPackageCall /\ PolicyStatus["CMP0090"] \in {"OLD", "WARN"})
       => /\ OldPackageExport
          /\ exportCall.messages # {} <=> PolicyStatus["CMP0090"] = "WARN"

\* C25, amended: at the second binding of a file WARN does what OLD does and
\* emits the CMP0103 warning, and OLD emits none; at the registration of a
\* package WARN does what OLD does and neither emits anything.
C25_WarnIsOldCMP0090Silent ==
  /\ (SecondBinding /\ PolicyStatus["CMP0103"] \in {"OLD", "WARN"})
       => /\ OldSecondBinding
          /\ IF PolicyStatus["CMP0103"] = "WARN"
             THEN PolicyWarning("CMP0103")
             ELSE exportCall.messages = {}
  /\ (ValidPackageCall /\ PolicyStatus["CMP0090"] \in {"OLD", "WARN"})
       => /\ OldPackageExport
          /\ exportCall.messages = {}

\* Under WARN for both policies: a package is stored without a word after a
\* file was bound twice.
C25_Witness ==
  /\ ValidPackageCall
  /\ PolicyStatus = [p \in Policies |-> "WARN"]
  /\ StoreInvoked
  /\ exportCall.messages = {}
  /\ Len(ExportBuildFileGenerators) = 2

-----------------------------------------------------------------------------
(* Package dependencies of an export set *)

\* The last command was a SETUP command in a project whose experimental
\* feature binds PACKAGE_DEPENDENCY.
SetupCall ==
  /\ ExportReturned
  /\ Len(exportCall.args) >= 2
  /\ CallForm = "SETUP"
  /\ HasSupportEnabled("ExportPackageDependencies")

\* The PACKAGE_DEPENDENCY groups of the last command, in the order given.
DependencyGroups == CallArguments.PackageDependencyArgs

\* The values given to EXTRA_ARGS among the tokens of a group, in order.
RECURSIVE ExtraArgsIn(_, _)
ExtraArgsIn(tokens, open) ==
  IF tokens = <<>> THEN <<>>
  ELSE IF Head(tokens) \in {"ENABLED", "EXTRA_ARGS"}
  THEN ExtraArgsIn(Tail(tokens), Head(tokens))
  ELSE IF open = "EXTRA_ARGS"
  THEN <<Head(tokens)>> \o ExtraArgsIn(Tail(tokens), open)
  ELSE ExtraArgsIn(Tail(tokens), "")

\* The values given to ENABLED among the tokens of a group.
EnabledIn(tokens) ==
  {tokens[i + 1] : i \in {j \in 1..(Len(tokens) - 1) : tokens[j] = "ENABLED"}}

\* The EXTRA_ARGS values the groups give for a package, in order.
RECURSIVE GivenExtraArgs(_, _)
GivenExtraArgs(groups, package) ==
  IF groups = <<>> THEN <<>>
  ELSE (IF Head(groups) # <<>> /\ Head(Head(groups)) = package
        THEN ExtraArgsIn(Tail(Head(groups)), "")
        ELSE <<>>)
         \o GivenExtraArgs(Tail(groups), package)

\* The ENABLED values the groups give for a package.
GivenEnabled(groups, package) ==
  UNION {EnabledIn(groups[i]) :
           i \in {j \in 1..Len(groups) :
                    groups[j] # <<>> /\ Head(groups[j]) = package}}

\* The packages the commands name.
DependencyPackages == {"P", "Q"}

\* The extra arguments and the enabled state of a package in an export set,
\* those of a fresh record when there is none.
ExtraArgumentsOf(sets, set, package) ==
  IF set \in DOMAIN sets /\ package \in DOMAIN sets[set].PackageDependencies
  THEN sets[set].PackageDependencies[package].ExtraArguments
  ELSE <<>>

EnabledOf(sets, set, package) ==
  IF set \in DOMAIN sets /\ package \in DOMAIN sets[set].PackageDependencies
  THEN sets[set].PackageDependencies[package].Enabled
  ELSE "Auto"

ValidEnabled == {"AUTO", "ON", "OFF"}

\* C26: after a SETUP command that succeeded, the extra arguments of every
\* package are those it had before followed by every EXTRA_ARGS value the
\* command gave for it, in order and with duplicates; a package no group
\* gave ENABLED for has the enabled state it had; and a command with an
\* ENABLED value that is neither AUTO, an on-value nor an off-value fails.
C26_ExtraArgsAppended ==
  SetupCall =>
    /\ exportCall.ret =>
         \A p \in DependencyPackages :
           /\ ExtraArgumentsOf(ExportSets, CallArguments.ExportSetName, p)
                = ExtraArgumentsOf(exportCall.entry.ExportSets,
                                   CallArguments.ExportSetName, p)
                    \o GivenExtraArgs(DependencyGroups, p)
           /\ GivenEnabled(DependencyGroups, p) = {}
                => EnabledOf(ExportSets, CallArguments.ExportSetName, p)
                     = EnabledOf(exportCall.entry.ExportSets,
                                 CallArguments.ExportSetName, p)
    /\ (\E p \in DependencyPackages :
          GivenEnabled(DependencyGroups, p) \ ValidEnabled # {})
         => ~exportCall.ret

\* A package that was switched off and given "a" is given "a" and "b" by a
\* later command without ENABLED: it has all three and is still off.
C26_Witness ==
  /\ SetupCall
  /\ exportCall.ret
  /\ GivenEnabled(DependencyGroups, "P") = {}
  /\ ExtraArgumentsOf(exportCall.entry.ExportSets, "s1", "P") = <<"a">>
  /\ EnabledOf(exportCall.entry.ExportSets, "s1", "P") = "Off"
  /\ ExtraArgumentsOf(ExportSets, "s1", "P") = <<"a", "a", "b">>
  /\ EnabledOf(ExportSets, "s1", "P") = "Off"

-----------------------------------------------------------------------------
(* The error flag across commands *)

\* C27: no step of a script, a handler command with or without capture
\* among them, clears the global error flag: once the flag is set between
\* two commands it is set whenever a later command has returned.
C27_FlagNeverCleared == [][ErrorOccurredFlag => ErrorOccurredFlag']_vars

\* A command with capture that failed, entered with the flag set: the flag,
\* reset on entry, is set again when the command has returned.
C27_Witness ==
  /\ Returned /\ Capturing
  /\ call.entryFlag
  /\ call.events \cap FailureEvents # {}
  /\ ErrorOccurredFlag

-----------------------------------------------------------------------------
(* The build command given by the script *)

\* The call got as far as InitializeHandler with a non-empty
\* CTEST_BUILD_COMMAND.
BuildCommandGiven ==
  /\ Returned
  /\ "InitializeHandler" \in call.events
  /\ definitions["CTEST_BUILD_COMMAND"] \notin {Undef, ""}

\* C28: a non-empty CTEST_BUILD_COMMAND is the MakeCommand as it stands, no
\* generator is created or asked for a build command, and a handler is
\* produced, whatever CTEST_CMAKE_GENERATOR holds and whatever CONFIGURATION,
\* FLAGS, TARGET and PARALLEL_LEVEL the command is given.
C28_BuildCommandWins ==
  BuildCommandGiven =>
    /\ ctestConfiguration["MakeCommand"] = definitions["CTEST_BUILD_COMMAND"]
    /\ "MakeCommand" \in call.configured
    /\ call.generatorCalls = <<>>
    /\ "CouldNotCreateGenerator" \notin call.events
    /\ call.handler
    /\ call.error # "has no project to build"

\* The script names a generator that cannot be created and the command gives
\* a configuration and a target: the handler runs on the build command of the
\* script.
C28_Witness ==
  /\ BuildCommandGiven
  /\ definitions["CTEST_CMAKE_GENERATOR"] = "NoSuchGenerator"
  /\ call.args.Configuration = "Profile"
  /\ call.args.Target = "install"
  /\ ctestConfiguration["MakeCommand"] = "make"
  /\ "ProcessHandler" \in call.events

====
